---- MODULE Spec2Model ----
(***************************************************************************)
(* chain-indexer: the live follower (IndexerService), the backfill run,   *)
(* and the three stores they write (transfers, tokens, indexer_state).     *)
(* Every database or RPC call is one atomic step; a call made with a       *)
(* cancelled context fails without effect.                                 *)
(***************************************************************************)
EXTENDS Integers, Sequences, FiniteSets, Bags, TLC

(* ------------------------------ bounds -------------------------------- *)

\* highest chain height the node ever reports
MaxLatest == 4
\* IndexerConfig.BatchSize (scaled down)
BatchSize == 2
\* IndexerConfig.BackfillBatchSize (scaled down)
BackfillBatchSize == 3
\* IndexerConfig.BlockConfirmations (scaled down)
BlockConfirmations == 1
\* IndexerConfig.WorkerCount (scaled down)
WorkerCount == 2
\* injected faults (failed DB/RPC calls, crashes, context cancellations) per behaviour
MaxDisruptions == 1
\* ticks are started only while ErrorCount is below this
MaxErrors == 2
\* longest batch handed to BatchInsert by a direct caller
MaxBatchLen == 2
\* EthereumConfig.MaxRetries (scaled down)
MaxRetries == 2
MaxLogs == 3
MaxCalls == 2
MaxHolderTx == 3
MaxPageRows == 3
MaxTopics == 4
MaxSplitBlock == 6
MaxSplitBatch == 3
MaxCached == 1
\* calls of the metrics methods per behaviour
MaxMetricCalls == 3

(* ------------------------------ values -------------------------------- *)

\* every token address of the model; a configuration names some of them
AllTokens == {"t1", "t2", "t3"}
\* a NULL column or nil pointer is the empty sequence, a value v is <<v>>
NULL == <<>>
Some(v) == <<v>>
Coalesce(x, d) == IF x = NULL THEN d ELSE x[1]

Max(a, b) == IF a >= b THEN a ELSE b
Min(a, b) == IF a <= b THEN a ELSE b
Range(s) == {s[i] : i \in DOMAIN s}

\* the log index of a token's first log in a block: the logs of different tokens
\* have different places in the block
FirstLogIndex(t) == IF t = "t1" THEN 0 ELSE IF t = "t2" THEN 10 ELSE 20

(* ------------------------------ the chain ------------------------------ *)

(* The chain at and below the safe tip is immutable.  Block b carries      *)
(* (b+1) % 3 well-formed Transfer logs of each token (so some blocks carry     *)
(* none and some several) and every second block one malformed log (two    *)
(* topics, or data of 31 bytes).  The genesis block 0 carries no logs, as  *)
(* on every EVM chain.                                                     *)
GoodLogsInBlock(b) == IF b <= 0 \/ b > MaxLatest THEN 0 ELSE (b + 1) % 3
BadLogsInBlock(b) == IF b <= 0 \/ b > MaxLatest THEN 0 ELSE IF b % 2 = 0 THEN 1 ELSE 0

\* types.Log: Topics[0] is the Transfer signature or not, Topics[1] and Topics[2]
\* hold the sender and the receiver, Data the value
RawLog(t, b, k) ==
    [tx_hash |-> b, log_index |-> FirstLogIndex(t) + k, block_number |-> b, address |-> t,
     ntopics |-> IF k < GoodLogsInBlock(b) \/ b % 4 = 0 THEN 3 ELSE 2,
     sig |-> TRUE,
     from |-> IF k = 0 THEN "a" ELSE "b", to |-> IF k = 0 THEN "b" ELSE "c",
     datalen |-> IF k < GoodLogsInBlock(b) \/ b % 4 # 0 THEN 32 ELSE 31,
     data |-> 1 + k]

\* eth_getLogs for one block and one address, in log order
BlockLogs(t, b) ==
    [j \in 1..(GoodLogsInBlock(b) + BadLogsInBlock(b)) |-> RawLog(t, b, j - 1)]

RECURSIVE FilterLogs(_, _, _)
FilterLogs(t, from, to) ==
    IF from > to THEN <<>> ELSE BlockLogs(t, from) \o FilterLogs(t, from + 1, to)

\* the fetcher resolves a block's timestamp by GetBlockTimestamp
BlockTimestamp(b) == 100 + b

\* ParseTransferEvent's checks, in its order: "none" when the log parses
ParseError(log) ==
    IF log.ntopics # 3 THEN "topics"
    ELSE IF ~log.sig THEN "signature"
    ELSE IF log.datalen # 32 THEN "data"
    ELSE "none"

ParseOk(log) == ParseError(log) = "none"

ParseTransferEvent(log, ts) ==
    [tx_hash |-> log.tx_hash, log_index |-> log.log_index,
     block_number |-> log.block_number, block_timestamp |-> ts,
     token_address |-> log.address, from_address |-> log.from, to_address |-> log.to,
     value |-> log.data]

\* the loop of ParseTransferLogs from log i on; indices count from 1 here
RECURSIVE ParseFrom(_, _, _)
ParseFrom(logs, blockTimestamps, i) ==
    IF i > Len(logs) THEN [transfers |-> <<>>, failedIndices |-> <<>>]
    ELSE LET rest == ParseFrom(logs, blockTimestamps, i + 1)
         IN IF logs[i].block_number \in DOMAIN blockTimestamps /\ ParseOk(logs[i])
            THEN [rest EXCEPT !.transfers =
                     <<ParseTransferEvent(logs[i], blockTimestamps[logs[i].block_number])>>
                       \o @]
            ELSE [rest EXCEPT !.failedIndices = <<i>> \o @]

ParseStopsAtBadLog(logs, blockTimestamps) ==
    LET bad == {i \in 1..Len(logs) : ~ParseOk(logs[i])}
        upto == IF bad = {} THEN Len(logs) ELSE (CHOOSE i \in bad : \A j \in bad : i <= j) - 1
    IN [transfers |-> ParseFrom(SubSeq(logs, 1, upto), blockTimestamps, 1).transfers,
        failedIndices |-> IF bad = {} THEN <<>> ELSE <<upto + 1>>]

ParseTransferLogs(logs, blockTimestamps) == ParseFrom(logs, blockTimestamps, 1)

\* the timestamp of every block of the chain
AllTimestamps == [b \in 0..MaxLatest |-> BlockTimestamp(b)]

\* every Transfer of token t the chain holds, as the rows the parser makes of them
\* (tabulated for every token, so that it is computed once)
ChainTransferSets ==
    [t \in AllTokens |->
        Range(ParseTransferLogs(FilterLogs(t, 0, MaxLatest), AllTimestamps).transfers)]
      @@ <<>>

ChainTransfers(t) == ChainTransferSets[t]

\* FetchTransfers: the distinct block numbers of the logs
LogBlocks(logs) == {logs[i].block_number : i \in DOMAIN logs}

fetchBlockTimestampsPartial(blockNumbers, failed) ==
    Some([b \in blockNumbers \ failed |-> BlockTimestamp(b)])

\* fetchBlockTimestamps, where the lookups of the blocks in failed return an error:
\* g.Wait returns the first error and the map is dropped
fetchBlockTimestamps(blockNumbers, failed) ==
    IF blockNumbers \cap failed # {} THEN NULL
    ELSE Some([b \in blockNumbers |-> BlockTimestamp(b)])

\* FetchTransfers after GetLogs has answered logs: NULL stands for (nil, err)
FetchFromLogs(logs, failed, fromBlock, toBlock) ==
    IF Len(logs) = 0
    THEN Some([Transfers |-> <<>>, FromBlock |-> fromBlock, ToBlock |-> toBlock,
               FailedLogCount |-> 0])
    ELSE LET blockTimestamps == fetchBlockTimestamps(LogBlocks(logs), failed)
         IN IF blockTimestamps = NULL THEN NULL
            ELSE LET parsed == ParseTransferLogs(logs, blockTimestamps[1])
                 IN Some([Transfers |-> parsed.transfers, FromBlock |-> fromBlock,
                          ToBlock |-> toBlock,
                          FailedLogCount |-> Len(parsed.failedIndices)])

FetchTransfersExclusive(t, from, to) ==
    FetchFromLogs(FilterLogs(t, from, to - 1), {}, from, to)[1].Transfers

\* FetchTransfers on its success path: result.Transfers
FetchTransfers(t, from, to) ==
    FetchFromLogs(FilterLogs(t, from, to), {}, from, to)[1].Transfers

RECURSIVE SplitLoop(_, _, _)
SplitLoop(current, toBlock, batchSize) ==
    IF current > toBlock THEN <<>>
    ELSE <<[From |-> current, To |-> Min(current + batchSize - 1, toBlock)]>>
         \o SplitLoop(current + batchSize, toBlock, batchSize)

SplitBlockRangeUncut(fromBlock, toBlock, batchSize) ==
    IF fromBlock > toBlock THEN <<>>
    ELSE [i \in 1..((toBlock - fromBlock) \div batchSize + 1) |->
            [From |-> fromBlock + (i - 1) * batchSize, To |-> fromBlock + i * batchSize - 1]]

SplitBlockRange(fromBlock, toBlock, batchSize) ==
    IF fromBlock > toBlock THEN <<>> ELSE SplitLoop(fromBlock, toBlock, batchSize)

SafeBlockNoConfirmations(latest) == latest

\* GetSafeBlockNumber on its success path
SafeBlock(latest) == Max(0, latest - BlockConfirmations)

\* rows a direct caller of BatchInsert may submit: equal keys with different payloads included
StoreRows ==
    [tx_hash : {1, 2}, log_index : {0}, block_number : {1}, block_timestamp : {1, 2},
     token_address : {"t1"}, from_address : {"a"}, to_address : {"b"}, value : {5, 6, 7}]

RECURSIVE SeqsUpTo(_, _)
SeqsUpTo(S, n) ==
    IF n = 0 THEN {<<>>}
    ELSE LET shorter == SeqsUpTo(S, n - 1)
         IN shorter \cup {Append(s, x) : s \in {q \in shorter : Len(q) = n - 1}, x \in S}

Batches == SeqsUpTo(StoreRows, MaxBatchLen)

(* ------------------------------- state --------------------------------- *)

VARIABLES
    store,        \* transfers table: a bag of rows
    tokens,       \* tokens table: address -> row, for the addresses that have one
    state,        \* indexer_state table: token_address -> row, likewise
    config,       \* IndexerConfig.TokenAddresses (lowercased)
    main,         \* the daemon process: "down", "init", "serving", "stopping"
    init,         \* initializeTokens: [i: index into config, pc]
    loop,         \* runIndexingLoop: [pc, safeBlock, spawnI, lastTick]
    task,         \* indexTokenTransfers per token: [pc, from, i, err]
    stopCh,       \* stopCh is closed
    ctxDone,      \* the context given to Start is cancelled
    metrics,      \* IndexerMetrics
    bf,           \* the Backfill call: [pc, token, from, to, i]
    bfCtxDone,    \* the context given to Backfill is cancelled
    disruptions,  \* faults injected so far
    hist,         \* history, read by the properties only
    call,         \* a call made directly on one component, and what it returned
    cache         \* the Redis cache: key -> cached value, for the keys that are set

\* the configured tokens: config.TokenAddresses, lowercased
Tokens == Range(config)

dbVars == <<store, tokens, state>>
daemonVars == <<config, main, init, loop, task, stopCh, ctxDone, metrics>>
bfVars == <<bf, bfCtxDone>>
vars == <<store, tokens, state, config, main, init, loop, task, stopCh, ctxDone,
          metrics, bf, bfCtxDone, disruptions, hist, call, cache>>

(* --------------------------- transfer store ---------------------------- *)

\* idx_transfers_unique: (tx_hash, log_index, block_timestamp)
KeyWithValue(r) == <<r.tx_hash, r.log_index, r.block_timestamp, r.value>>

UniqueKey(r) == <<r.tx_hash, r.log_index, r.block_timestamp>>

\* ON CONFLICT (tx_hash, log_index, block_timestamp): a stored row has the same key
NeverConflicts(st, r) == FALSE

Conflicts(st, r) == \E q \in BagToSet(st) : UniqueKey(q) = UniqueKey(r)

\* one INSERT ... ON CONFLICT DO NOTHING
InsertRow(st, r) == IF Conflicts(st, r) THEN st ELSE st (+) SetToBag({r})

RECURSIVE InsertRows(_, _)
InsertRows(st, rows) ==
    IF rows = <<>> THEN st ELSE InsertRows(InsertRow(st, Head(rows)), Tail(rows))

BatchInsertLost(st, rows) == st

\* BatchInsert on its success path: every row inserted in order, then commit
BatchInsert(st, rows) == IF Len(rows) = 0 THEN st ELSE InsertRows(st, rows)

\* transfers.token_address REFERENCES tokens(address)
ForeignKeyOk(rows) == \A j \in DOMAIN rows : rows[j].token_address \in DOMAIN tokens

(* ---------------------------- token registry --------------------------- *)

PlaceholderToken ==
    [name |-> "Unknown", symbol |-> "UNK", decimals |-> 18, first_seen_block |-> NULL]

\* TokenRepo.Upsert: counters are set by the column defaults and kept on conflict
TokenUpsert(tk, addr, tok) ==
    IF addr \in DOMAIN tk
    THEN [tk EXCEPT ![addr].name = tok.name, ![addr].symbol = tok.symbol,
                    ![addr].decimals = tok.decimals]
    ELSE [a \in DOMAIN tk \cup {addr} |->
            IF a = addr
            THEN [name |-> tok.name, symbol |-> tok.symbol, decimals |-> tok.decimals,
                  total_indexed_transfers |-> 0, first_seen_block |-> tok.first_seen_block,
                  last_seen_block |-> NULL]
            ELSE tk[a]]

UpdateStatsSetsLastBlock(tk, addr, transferCount, lastBlock) ==
    IF addr \in DOMAIN tk
    THEN [tk EXCEPT ![addr].total_indexed_transfers = @ + transferCount,
                    ![addr].last_seen_block = Some(lastBlock)]
    ELSE tk

\* TokenRepo.UpdateStats: an UPDATE, so a missing row is left missing
UpdateStats(tk, addr, transferCount, lastBlock) ==
    IF addr \in DOMAIN tk
    THEN [tk EXCEPT ![addr].total_indexed_transfers = @ + transferCount,
                    ![addr].last_seen_block = Some(Max(Coalesce(@, 0), lastBlock))]
    ELSE tk

(* --------------------------- watermark store --------------------------- *)

NewStateAtOne(lastBlock) ==
    [last_indexed_block |-> lastBlock + 1, is_backfilling |-> FALSE,
     backfill_from_block |-> NULL, backfill_to_block |-> NULL]

\* the row initializeTokens and UpdateLastBlock hand to Upsert: the fields they leave
\* out are Go zero values
NewState(lastBlock) ==
    [last_indexed_block |-> lastBlock, is_backfilling |-> FALSE,
     backfill_from_block |-> NULL, backfill_to_block |-> NULL]

\* IndexerStateRepo.Upsert: every column is overwritten on conflict
Upsert(st, addr, row) ==
    [a \in DOMAIN st \cup {addr} |-> IF a = addr THEN row ELSE st[a]]

UpdateLastBlockByUpsert(st, addr, blockNumber) == Upsert(st, addr, NewState(blockNumber))

\* IndexerStateRepo.UpdateLastBlock: UPDATE, and Upsert when no row was affected
UpdateLastBlock(st, addr, blockNumber) ==
    IF addr \in DOMAIN st
    THEN [st EXCEPT ![addr].last_indexed_block = blockNumber]
    ELSE Upsert(st, addr, NewState(blockNumber))

SetBackfillingByUpsert(st, addr, isBackfilling, fromBlock, toBlock) ==
    Upsert(st, addr, [last_indexed_block |-> 0, is_backfilling |-> isBackfilling,
                      backfill_from_block |-> fromBlock, backfill_to_block |-> toBlock])

\* IndexerStateRepo.SetBackfilling: an UPDATE of the three backfill columns
SetBackfilling(st, addr, isBackfilling, fromBlock, toBlock) ==
    IF addr \in DOMAIN st
    THEN [st EXCEPT ![addr].is_backfilling = isBackfilling,
                    ![addr].backfill_from_block = fromBlock,
                    ![addr].backfill_to_block = toBlock]
    ELSE st

(* ------------------------------- faults -------------------------------- *)

(* A database or RPC call made with a cancelled context returns the        *)
(* context's error and has no effect; otherwise it succeeds, or fails      *)
(* while the fault budget lasts.                                           *)
Outcomes(cancelled) ==
    IF cancelled THEN {"cancelled"}
    ELSE IF disruptions < MaxDisruptions THEN {"ok", "fault"} ELSE {"ok"}

Charge(o) == disruptions' = disruptions + (IF o = "fault" THEN 1 ELSE 0)

\* the timestamp lookups that may fail in a fetch whose GetLogs had outcome o and
\* answered logs: any of them, while the fault budget lasts
LookupFailures(o, logs) ==
    IF o = "ok" /\ disruptions < MaxDisruptions THEN SUBSET LogBlocks(logs) ELSE {{}}

ChargeFetch(o, failed) ==
    disruptions' = disruptions + (IF o = "fault" \/ failed # {} THEN 1 ELSE 0)

(* ------------------------------- daemon -------------------------------- *)

IdleTask == [pc |-> "idle", from |-> 0, i |-> 0, err |-> FALSE]
IdleLoop == [pc |-> "none", latest |-> 0, safeBlock |-> 0, spawnI |-> 0, lastTick |-> "none"]
IdleInit == [i |-> 0, pc |-> "none"]
NoMetrics == [ErrorCount |-> 0]
NoHistProc == [t \in Tokens |-> 0]

\* main: a fresh process with a fresh IndexerService and context calls Start
\* (what a dead process held in memory is reset when it dies)
Start ==
    /\ main = "down"
    /\ main' = "init"
    /\ init' = [i |-> 1, pc |-> "get"]
    /\ loop' = IdleLoop
    /\ task' = [t \in Tokens |-> IdleTask]
    /\ UNCHANGED <<dbVars, config, stopCh, ctxDone, metrics, bfVars, disruptions, hist>>
    /\ UNCHANGED <<call, cache>>

\* Start returns an error and main ends the process (logger.Fatal)
StartFails ==
    /\ main' = "down"
    /\ init' = IdleInit
    /\ ctxDone' = FALSE
    /\ UNCHANGED <<config, loop, task, stopCh, metrics>>

TokenAlwaysMissing(addr) == TRUE

\* initializeTokens: existing == nil
TokenMissing(addr) == addr \notin DOMAIN tokens

\* initializeTokens: tokenRepo.GetByAddress
InitGet ==
    /\ main = "init" /\ init.pc = "get" /\ init.i <= Len(config)
    /\ \E o \in Outcomes(ctxDone) :
          /\ Charge(o)
          /\ IF o = "ok"
             THEN /\ init' = IF TokenMissing(config[init.i])
                             THEN [init EXCEPT !.pc = "token"]
                             ELSE [init EXCEPT !.i = @ + 1]
                  /\ UNCHANGED <<config, main, loop, task, stopCh, ctxDone, metrics>>
             ELSE StartFails
    /\ UNCHANGED <<dbVars, bfVars, hist>>
    /\ UNCHANGED <<call, cache>>

\* initializeTokens: tokenRepo.Upsert of the placeholder token
InitUpsertToken ==
    /\ main = "init" /\ init.pc = "token"
    /\ \E o \in Outcomes(ctxDone) :
          /\ Charge(o)
          /\ IF o = "ok"
             THEN /\ tokens' = TokenUpsert(tokens, config[init.i], PlaceholderToken)
                  /\ init' = [init EXCEPT !.pc = "state"]
                  /\ UNCHANGED <<config, main, loop, task, stopCh, ctxDone, metrics>>
             ELSE StartFails /\ UNCHANGED tokens
    /\ UNCHANGED <<store, state, bfVars, hist>>
    /\ UNCHANGED <<call, cache>>

\* initializeTokens: stateRepo.Upsert of LastIndexedBlock 0
InitUpsertState ==
    /\ main = "init" /\ init.pc = "state"
    /\ \E o \in Outcomes(ctxDone) :
          /\ Charge(o)
          /\ IF o = "ok"
             THEN /\ state' = Upsert(state, config[init.i], NewState(0))
                  /\ init' = [init EXCEPT !.i = @ + 1, !.pc = "get"]
                  /\ hist' = [hist EXCEPT !.liveWM[config[init.i]] = 0]
                  /\ UNCHANGED <<config, main, loop, task, stopCh, ctxDone, metrics>>
             ELSE StartFails /\ UNCHANGED <<state, hist>>
    /\ UNCHANGED <<store, tokens, bfVars>>
    /\ UNCHANGED <<call, cache>>

\* Start: go runIndexingLoop, which runs indexNewBlocks at once
InitDone ==
    /\ main = "init" /\ init.pc = "get" /\ init.i > Len(config)
    /\ main' = "serving"
    /\ init' = IdleInit
    /\ loop' = [IdleLoop EXCEPT !.pc = "safe"]
    /\ UNCHANGED <<dbVars, config, task, stopCh, ctxDone, metrics, bfVars, disruptions, hist>>
    /\ UNCHANGED <<call, cache>>

TickErrorIsFatal(lp) == [IdleLoop EXCEPT !.pc = "exited", !.lastTick = "failed"]

\* indexNewBlocks returns after an error; the loop is back at its select
TickFailed(lp) == [IdleLoop EXCEPT !.pc = "select", !.lastTick = "failed"]

\* incrementErrorCount
IncrementErrorCount(m) == [m EXCEPT !.ErrorCount = @ + 1]

\* indexNewBlocks: fetcher.GetSafeBlockNumber
LoopSafe ==
    /\ loop.pc = "safe"
    /\ \E o \in Outcomes(ctxDone) :
          /\ Charge(o)
          /\ IF o = "ok"
             THEN /\ \E latest \in 0..MaxLatest :
                        loop' = [loop EXCEPT !.pc = "spawn", !.spawnI = 1,
                                             !.latest = latest,
                                             !.safeBlock = SafeBlock(latest)]
                  /\ UNCHANGED metrics
             ELSE /\ loop' = TickFailed(loop)
                  /\ metrics' = IncrementErrorCount(metrics)
    /\ UNCHANGED <<dbVars, config, main, init, task, stopCh, ctxDone, bfVars, hist>>
    /\ UNCHANGED <<call, cache>>

NoLimit(active) == FALSE

\* errgroup.SetLimit(WorkerCount): g.Go blocks while that many goroutines of the
\* group are active; a negative limit is no limit
LimitReached(active) == WorkerCount >= 0 /\ active >= WorkerCount

NoneRunning == {}
Running == {t \in Tokens : task[t].pc \notin {"idle", "done"}}

\* indexNewBlocks: g.Go, which waits while WorkerCount tasks are running; the
\* latest block was local to GetSafeBlockNumber and is gone by now
LoopSpawn ==
    /\ loop.pc = "spawn" /\ loop.spawnI <= Len(config)
    /\ ~LimitReached(Cardinality(Running))
    /\ task' = [task EXCEPT ![config[loop.spawnI]] = [IdleTask EXCEPT !.pc = "get"]]
    /\ loop' = [loop EXCEPT !.spawnI = @ + 1, !.latest = 0]
    /\ UNCHANGED <<dbVars, config, main, init, stopCh, ctxDone, metrics, bfVars,
                   disruptions, hist>>
    /\ UNCHANGED <<call, cache>>

\* indexNewBlocks: g.Wait returns, the error count and the latency are recorded
LoopWait ==
    /\ loop.pc = "spawn" /\ loop.spawnI > Len(config)
    /\ Running = {}
    /\ IF \E t \in Tokens : task[t].err
       THEN /\ loop' = TickFailed(loop)
            /\ metrics' = IncrementErrorCount(metrics)
       ELSE /\ loop' = [IdleLoop EXCEPT !.pc = "select", !.lastTick = "ok"]
            /\ UNCHANGED metrics
    /\ task' = [t \in Tokens |-> IdleTask]
    /\ hist' = [hist EXCEPT !.stampFail = NoHistProc]
    /\ UNCHANGED <<dbVars, config, main, init, stopCh, ctxDone, bfVars, disruptions>>
    /\ UNCHANGED <<call, cache>>

\* runIndexingLoop: case <-ticker.C
LoopTick ==
    /\ loop.pc = "select"
    /\ metrics.ErrorCount < MaxErrors
    /\ loop' = [loop EXCEPT !.pc = "safe"]
    /\ UNCHANGED <<dbVars, config, main, init, task, stopCh, ctxDone, metrics, bfVars,
                   disruptions, hist>>
    /\ UNCHANGED <<call, cache>>

\* runIndexingLoop: case <-ctx.Done() or case <-s.stopCh
LoopExit ==
    /\ loop.pc = "select"
    /\ ctxDone \/ stopCh
    /\ loop' = [loop EXCEPT !.pc = "exited"]
    /\ UNCHANGED <<dbVars, config, main, init, task, stopCh, ctxDone, metrics, bfVars,
                   disruptions, hist>>
    /\ UNCHANGED <<call, cache>>

(* ----------------------- indexTokenTransfers --------------------------- *)

\* errgroup.WithContext: gCtx is cancelled with ctx, or once a task has returned an error
GroupCtxDone == ctxDone \/ \E u \in Tokens : task[u].pc = "done" /\ task[u].err

Ranges(t) == SplitBlockRange(task[t].from, loop.safeBlock, BatchSize)
Cur(t) == Ranges(t)[task[t].i]
InRange(t) == task[t].pc \in {"fetch", "insert", "stats", "update"}

TaskReturn(tk, failed) == [tk EXCEPT !.pc = "done", !.err = failed]

TaskVarsExcept == <<config, main, init, loop, stopCh, ctxDone, metrics, bfVars>>

UpToDateNever(fromBlock, toBlock) == FALSE

\* indexTokenTransfers: fromBlock > toBlock, "already up to date"
UpToDate(fromBlock, toBlock) == fromBlock > toBlock

\* stateRepo.Get, fromBlock, the up-to-date test and SplitBlockRange
TaskGet(t) ==
    /\ task[t].pc = "get"
    /\ \E o \in Outcomes(GroupCtxDone) :
          /\ Charge(o)
          /\ task' = [task EXCEPT ![t] =
                IF o # "ok" \/ t \notin DOMAIN state THEN TaskReturn(@, TRUE)
                ELSE IF UpToDate(state[t].last_indexed_block + 1, loop.safeBlock)
                     THEN TaskReturn(@, FALSE)
                     ELSE [@ EXCEPT !.pc = "check", !.i = 1,
                                    !.from = state[t].last_indexed_block + 1]]
    /\ UNCHANGED <<dbVars, TaskVarsExcept, hist>>
    /\ UNCHANGED <<call, cache>>

\* the range loop's head: the next range, or return; select on ctx.Done()
TaskCheck(t) ==
    /\ task[t].pc = "check"
    /\ task' = [task EXCEPT ![t] =
          IF task[t].i > Len(Ranges(t)) THEN TaskReturn(@, FALSE)
          ELSE IF GroupCtxDone THEN TaskReturn(@, TRUE)
          ELSE [@ EXCEPT !.pc = "fetch"]]
    /\ hist' = IF task'[t].pc = "fetch"
               THEN [hist EXCEPT !.insFail[t] = 0, !.stampFail[t] = 0]
               ELSE hist
    /\ UNCHANGED <<dbVars, TaskVarsExcept, disruptions>>
    /\ UNCHANGED <<call, cache>>

\* fetcher.FetchTransfers: GetLogs with outcome o, then the timestamp lookups, of
\* which those of the blocks in failed return an error
TaskFetch(t) ==
    /\ task[t].pc = "fetch"
    /\ \E o \in Outcomes(GroupCtxDone) :
        \E failed \in LookupFailures(o, FilterLogs(t, Cur(t).From, Cur(t).To)) :
          LET result == IF o = "ok"
                        THEN FetchFromLogs(FilterLogs(t, Cur(t).From, Cur(t).To), failed,
                                           Cur(t).From, Cur(t).To)
                        ELSE NULL
          IN /\ ChargeFetch(o, failed)
             /\ task' = [task EXCEPT ![t] =
                   IF result = NULL THEN TaskReturn(@, TRUE)
                   ELSE IF Len(result[1].Transfers) > 0
                        THEN [@ EXCEPT !.pc = "insert"]
                        ELSE [@ EXCEPT !.pc = "update"]]
             /\ hist' = IF failed # {} THEN [hist EXCEPT !.stampFail[t] = Cur(t).From]
                        ELSE hist
    /\ UNCHANGED <<dbVars, TaskVarsExcept>>
    /\ UNCHANGED <<call, cache>>

InsertFailedContinues(tk) == [tk EXCEPT !.pc = "update"]

\* transferRepo.BatchInsert returned an error
InsertFailed(tk) == TaskReturn(tk, TRUE)

Blocks(r) == r.From..r.To

\* transferRepo.BatchInsert
TaskInsert(t) ==
    /\ task[t].pc = "insert"
    /\ \E o \in Outcomes(GroupCtxDone) :
          /\ Charge(o)
          /\ IF o = "ok" /\ ForeignKeyOk(FetchTransfers(t, Cur(t).From, Cur(t).To))
             THEN /\ store' = BatchInsert(store, FetchTransfers(t, Cur(t).From, Cur(t).To))
                  /\ task' = [task EXCEPT ![t].pc = "stats"]
                  /\ hist' = [hist EXCEPT !.live[t] = @ \cup Blocks(Cur(t))]
             ELSE /\ task' = [task EXCEPT ![t] = InsertFailed(@)]
                  /\ hist' = [hist EXCEPT !.insFail[t] = Cur(t).From]
                  /\ UNCHANGED store
    /\ UNCHANGED <<tokens, state, TaskVarsExcept>>
    /\ UNCHANGED <<call, cache>>

\* tokenRepo.UpdateStats; a failure is logged and the range goes on
TaskStats(t) ==
    /\ task[t].pc = "stats"
    /\ \E o \in Outcomes(GroupCtxDone) :
          /\ Charge(o)
          /\ IF o = "ok"
             THEN /\ tokens' = UpdateStats(tokens, t,
                                   Len(FetchTransfers(t, Cur(t).From, Cur(t).To)), Cur(t).To)
                  /\ hist' = [hist EXCEPT !.counted[t] = @ \cup Blocks(Cur(t))]
             ELSE UNCHANGED <<tokens, hist>>
    /\ task' = [task EXCEPT ![t].pc = "update"]
    /\ UNCHANGED <<store, state, TaskVarsExcept>>
    /\ UNCHANGED <<call, cache>>

\* stateRepo.UpdateLastBlock, then the next range
TaskUpdate(t) ==
    /\ task[t].pc = "update"
    /\ \E o \in Outcomes(GroupCtxDone) :
          /\ Charge(o)
          /\ IF o = "ok"
             THEN /\ state' = UpdateLastBlock(state, t, Cur(t).To)
                  /\ task' = [task EXCEPT ![t].pc = "check", ![t].i = @ + 1]
                  /\ hist' = [hist EXCEPT !.liveWM[t] = Cur(t).To]
             ELSE /\ task' = [task EXCEPT ![t] = TaskReturn(@, TRUE)]
                  /\ UNCHANGED <<state, hist>>
    /\ UNCHANGED <<store, tokens, TaskVarsExcept>>
    /\ UNCHANGED <<call, cache>>

TaskStep(t) ==
    \/ TaskGet(t)
    \/ TaskCheck(t)
    \/ TaskFetch(t)
    \/ TaskInsert(t)
    \/ TaskStats(t)
    \/ TaskUpdate(t)

(* ------------------------- signals and crashes ------------------------- *)

\* main receives SIGINT or SIGTERM and calls Stop: close(stopCh), then wg.Wait
Stop ==
    /\ main = "serving"
    /\ main' = "stopping"
    /\ stopCh' = TRUE
    /\ hist' = [hist EXCEPT !.stopAt =
                  [t \in Tokens |-> IF InRange(t) THEN Cur(t).To ELSE 0]]
    /\ UNCHANGED <<dbVars, config, init, loop, task, ctxDone, metrics, bfVars, disruptions>>
    /\ UNCHANGED <<call, cache>>

WaitGroupDoneAtOnce == TRUE

\* s.wg.Wait(): the counter Start raised is lowered by the deferred wg.Done of
\* runIndexingLoop
WaitGroupDone == loop.pc = "exited"

\* Stop: wg.Wait returns once the loop has exited; main returns
StopReturns ==
    /\ main = "stopping"
    /\ WaitGroupDone
    /\ main' = "down"
    /\ loop' = IdleLoop
    /\ stopCh' = FALSE
    /\ ctxDone' = FALSE
    /\ metrics' = NoMetrics
    /\ hist' = [hist EXCEPT !.stopAt = NoHistProc]
    /\ UNCHANGED <<dbVars, config, init, task, bfVars, disruptions>>
    /\ UNCHANGED <<call, cache>>

\* the caller of Start cancels its context
CancelCtx ==
    /\ main \in {"init", "serving", "stopping"}
    /\ ~ctxDone
    /\ disruptions < MaxDisruptions
    /\ disruptions' = disruptions + 1
    /\ ctxDone' = TRUE
    /\ UNCHANGED <<dbVars, config, main, init, loop, task, stopCh, metrics, bfVars, hist>>
    /\ UNCHANGED <<call, cache>>

\* the process dies: everything in memory is gone, the database stays
Crash ==
    /\ main # "down"
    /\ disruptions < MaxDisruptions
    /\ disruptions' = disruptions + 1
    /\ main' = "down"
    /\ init' = IdleInit
    /\ loop' = IdleLoop
    /\ task' = [t \in Tokens |-> IdleTask]
    /\ stopCh' = FALSE
    /\ ctxDone' = FALSE
    /\ metrics' = NoMetrics
    /\ hist' = [hist EXCEPT !.stopAt = NoHistProc, !.stampFail = NoHistProc]
    /\ UNCHANGED <<dbVars, config, bfVars>>
    /\ UNCHANGED <<call, cache>>

(* ------------------------------ Backfill ------------------------------- *)

\* the windows an operator asks for
BackfillWindows == {<<1, MaxLatest>>, <<2, 3>>}

IdleBackfill == [pc |-> "idle", token |-> "t1", from |-> 0, to |-> 0, i |-> 0, set |-> FALSE]

BfRanges == SplitBlockRange(bf.from, bf.to, BackfillBatchSize)
BfCur == BfRanges[bf.i]
BfRunning == bf.pc \in {"set", "check", "fetch", "insert", "defer"}

\* Backfill is called
BackfillCall(t, w) ==
    /\ bf.pc \in {"idle", "done"}
    /\ bf' = [pc |-> "set", token |-> t, from |-> w[1], to |-> w[2], i |-> 0, set |-> FALSE]
    /\ bfCtxDone' = FALSE
    /\ UNCHANGED <<dbVars, daemonVars, disruptions, hist>>
    /\ UNCHANGED <<call, cache>>

\* Backfill returns
BfReturn(b) == [IdleBackfill EXCEPT !.pc = "done", !.token = b.token, !.set = b.set]

\* stateRepo.SetBackfilling(true, &fromBlock, &toBlock); on an error Backfill returns
\* before the deferred call is registered
BfMark ==
    /\ bf.pc = "set"
    /\ \E o \in Outcomes(bfCtxDone) :
          /\ Charge(o)
          /\ IF o = "ok"
             THEN /\ state' = SetBackfilling(state, bf.token, TRUE, Some(bf.from), Some(bf.to))
                  /\ bf' = [bf EXCEPT !.pc = "check", !.i = 1, !.set = TRUE]
             ELSE /\ bf' = BfReturn(bf)
                  /\ UNCHANGED state
    /\ UNCHANGED <<store, tokens, daemonVars, bfCtxDone, hist>>
    /\ UNCHANGED <<call, cache>>

\* the range loop's head: the next range, or return; select on ctx.Done()
BfCheck ==
    /\ bf.pc = "check"
    /\ bf' = IF bf.i > Len(BfRanges) \/ bfCtxDone
             THEN [bf EXCEPT !.pc = "defer"]
             ELSE [bf EXCEPT !.pc = "fetch"]
    /\ UNCHANGED <<dbVars, daemonVars, bfCtxDone, disruptions, hist>>
    /\ UNCHANGED <<call, cache>>

\* fetcher.FetchTransfers
BfFetch ==
    /\ bf.pc = "fetch"
    /\ \E o \in Outcomes(bfCtxDone) :
        \E failed \in LookupFailures(o, FilterLogs(bf.token, BfCur.From, BfCur.To)) :
          LET result == IF o = "ok"
                        THEN FetchFromLogs(FilterLogs(bf.token, BfCur.From, BfCur.To), failed,
                                           BfCur.From, BfCur.To)
                        ELSE NULL
          IN /\ ChargeFetch(o, failed)
             /\ bf' = IF result = NULL THEN [bf EXCEPT !.pc = "defer"]
                      ELSE IF Len(result[1].Transfers) > 0
                           THEN [bf EXCEPT !.pc = "insert"]
                           ELSE [bf EXCEPT !.pc = "check", !.i = @ + 1]
    /\ UNCHANGED <<dbVars, daemonVars, bfCtxDone, hist>>
    /\ UNCHANGED <<call, cache>>

\* transferRepo.BatchInsert
BfInsert ==
    /\ bf.pc = "insert"
    /\ \E o \in Outcomes(bfCtxDone) :
          /\ Charge(o)
          /\ IF o = "ok" /\ ForeignKeyOk(FetchTransfers(bf.token, BfCur.From, BfCur.To))
             THEN /\ store' = BatchInsert(store,
                                  FetchTransfers(bf.token, BfCur.From, BfCur.To))
                  /\ bf' = [bf EXCEPT !.pc = "check", !.i = @ + 1]
                  /\ hist' = [hist EXCEPT !.bf[bf.token] = @ \cup Blocks(BfCur)]
             ELSE /\ bf' = [bf EXCEPT !.pc = "defer"]
                  /\ UNCHANGED <<store, hist>>
    /\ UNCHANGED <<tokens, state, daemonVars, bfCtxDone>>
    /\ UNCHANGED <<call, cache>>

\* the deferred stateRepo.SetBackfilling(ctx, false, nil, nil); its error is dropped
BfDefer ==
    /\ bf.pc = "defer"
    /\ \E o \in Outcomes(bfCtxDone) :
          /\ Charge(o)
          /\ state' = IF o = "ok" THEN SetBackfilling(state, bf.token, FALSE, NULL, NULL)
                      ELSE state
    /\ bf' = BfReturn(bf)
    /\ UNCHANGED <<store, tokens, daemonVars, bfCtxDone, hist>>
    /\ UNCHANGED <<call, cache>>

\* the caller of Backfill cancels its context
CancelBackfill ==
    /\ BfRunning
    /\ ~bfCtxDone
    /\ disruptions < MaxDisruptions
    /\ disruptions' = disruptions + 1
    /\ bfCtxDone' = TRUE
    /\ UNCHANGED <<dbVars, daemonVars, bf, hist>>
    /\ UNCHANGED <<call, cache>>

BackfillStep ==
    \/ \E w \in BackfillWindows : BackfillCall(config[1], w)
    \/ BfMark
    \/ BfCheck
    \/ BfFetch
    \/ BfInsert
    \/ BfDefer
    \/ CancelBackfill

(* ----------------------------- direct calls ---------------------------- *)

\* a direct call of BatchInsert with any batch
ManualInsert(b) ==
    /\ ForeignKeyOk(b)
    /\ store' = BatchInsert(store, b)
    /\ UNCHANGED <<tokens, state, daemonVars, bfVars, disruptions, hist>>
    /\ UNCHANGED <<call, cache>>

(* ----------------- BatchInsert, statement by statement ------------------ *)

\* rows a caller hands to BatchInsert; token "t0" has no row in tokens, so its insert
\* fails on the foreign key
TxRows ==
    [tx_hash : {1, 2}, log_index : {0}, block_number : {1}, block_timestamp : {1},
     token_address : {"t1", "t0"}, from_address : {"a"}, to_address : {"b"},
     value : {5}]

TxBatches == SeqsUpTo(TxRows, MaxBatchLen)

\* a statement made with a cancelled context fails; any other may fail or succeed
TxOutcomes(cancelled) == IF cancelled THEN {"cancelled"} ELSE {"ok", "fault"}

TxOpen == call.op = "BatchInsert" /\ call.pc \in {"begin", "prepare", "exec", "commit"}

\* BatchInsert is called: an empty batch returns nil before any statement
BatchInsertCall(b) ==
    /\ UNCHANGED cache
    /\ call.op = "none" \/ (call.op = "BatchInsert" /\ call.pc = "returned")
    /\ call' = [op |-> "BatchInsert", pc |-> IF Len(b) = 0 THEN "returned" ELSE "begin",
                rows |-> b, i |-> 0, before |-> store, pending |-> store,
                stmts |-> 0, err |-> FALSE, ctxDone |-> FALSE]
    /\ UNCHANGED <<dbVars, daemonVars, bfVars, disruptions, hist>>

RollbackKeepsRows(st, pending) == pending

\* the deferred tx.Rollback(): what the transaction wrote is dropped
Rollback(st, pending) == st

\* an error return: the deferred Rollback runs
TxFails ==
    /\ UNCHANGED cache
    /\ store' = Rollback(store, call.pending)
    /\ call' = [call EXCEPT !.pc = "returned", !.err = TRUE, !.stmts = @ + 1]

\* db.BeginTxx
TxBegin ==
    /\ UNCHANGED cache
    /\ call.op = "BatchInsert" /\ call.pc = "begin"
    /\ \E o \in TxOutcomes(call.ctxDone) :
          IF o = "ok"
          THEN /\ call' = [call EXCEPT !.pc = "prepare", !.stmts = @ + 1]
               /\ UNCHANGED store
          ELSE /\ call' = [call EXCEPT !.pc = "returned", !.err = TRUE, !.stmts = @ + 1]
               /\ UNCHANGED store
    /\ UNCHANGED <<tokens, state, daemonVars, bfVars, disruptions, hist>>

\* tx.PrepareContext
TxPrepare ==
    /\ UNCHANGED cache
    /\ call.op = "BatchInsert" /\ call.pc = "prepare"
    /\ \E o \in TxOutcomes(call.ctxDone) :
          IF o = "ok"
          THEN /\ call' = [call EXCEPT !.pc = "exec", !.i = 1, !.stmts = @ + 1]
               /\ UNCHANGED store
          ELSE TxFails
    /\ UNCHANGED <<tokens, state, daemonVars, bfVars, disruptions, hist>>

\* stmt.ExecContext for the next row: seen by this transaction only
TxExec ==
    /\ UNCHANGED cache
    /\ call.op = "BatchInsert" /\ call.pc = "exec"
    /\ \E o \in TxOutcomes(call.ctxDone) :
          IF o = "ok" /\ ForeignKeyOk(<<call.rows[call.i]>>)
          THEN /\ call' = [call EXCEPT
                             !.pending = InsertRow(@, call.rows[call.i]),
                             !.i = @ + 1,
                             !.pc = IF call.i = Len(call.rows) THEN "commit" ELSE "exec",
                             !.stmts = @ + 1]
               /\ UNCHANGED store
          ELSE TxFails
    /\ UNCHANGED <<tokens, state, daemonVars, bfVars, disruptions, hist>>

\* tx.Commit: the transaction's rows become visible together
TxCommit ==
    /\ UNCHANGED cache
    /\ call.op = "BatchInsert" /\ call.pc = "commit"
    /\ \E o \in TxOutcomes(call.ctxDone) :
          IF o = "ok"
          THEN /\ store' = call.pending
               /\ call' = [call EXCEPT !.pc = "returned", !.stmts = @ + 1]
          ELSE TxFails
    /\ UNCHANGED <<tokens, state, daemonVars, bfVars, disruptions, hist>>

\* the caller's context is cancelled while the call runs
TxCancel ==
    /\ UNCHANGED cache
    /\ TxOpen
    /\ ~call.ctxDone
    /\ call' = [call EXCEPT !.ctxDone = TRUE]
    /\ UNCHANGED <<dbVars, daemonVars, bfVars, disruptions, hist>>

(* ------------------- FetchTransfers on any answer of the node ------------- *)

\* the logs a node may answer: two that parse, and one for each rejection of
\* ParseTransferEvent
ParseInputs ==
    LET good == [tx_hash |-> 1, log_index |-> 0, block_number |-> 1, address |-> "t1",
                 ntopics |-> 3, sig |-> TRUE, from |-> "a", to |-> "b", datalen |-> 32,
                 data |-> 5]
    IN {good,
        [good EXCEPT !.tx_hash = 2, !.block_number = 2, !.data = 6],
        [good EXCEPT !.tx_hash = 3, !.ntopics = 2],
        [good EXCEPT !.tx_hash = 4, !.block_number = 2, !.sig = FALSE],
        [good EXCEPT !.tx_hash = 5, !.datalen = 31]}

ParseInputSeqs == SeqsUpTo(ParseInputs, MaxLogs)

\* FetchTransfers(ctx, "t1", 1, 2) where GetLogs answers logs and every timestamp
\* lookup succeeds
FetchCall(logs) ==
    /\ UNCHANGED cache
    /\ call' = [op |-> "FetchTransfers", pc |-> "returned", logs |-> logs,
                result |-> FetchFromLogs(logs, {}, 1, 2)]
    /\ UNCHANGED <<dbVars, daemonVars, bfVars, disruptions, hist>>

(* --------------------- chain client, attempt by attempt ------------------ *)

ClientOps == {"GetLatestBlockNumber", "GetBlockByNumber", "GetLogs"}

\* what the node may answer to one attempt
Answers(op) ==
    CASE op = "GetLatestBlockNumber" -> 0..MaxLatest
      [] op = "GetBlockByNumber" -> {BlockTimestamp(1), BlockTimestamp(2)}
      [] op = "GetLogs" -> {BlockLogs("t1", 1), BlockLogs("t1", 2)}

ClientRunning == call.op \in ClientOps /\ call.pc \in {"attempt", "sleep"}

\* the follower calls the client (GetSafeBlockNumber, FetchTransfers, GetBlockTimestamp)
ClientCall(op) ==
    /\ UNCHANGED cache
    /\ call.op = "none" \/ (call.op \in ClientOps /\ call.pc = "returned")
    /\ call' = [op |-> op, pc |-> "attempt", i |-> 0, answers |-> <<>>, sleeps |-> 0,
                result |-> NULL, err |-> FALSE]
    /\ UNCHANGED <<dbVars, daemonVars, bfVars, disruptions, hist>>

OneAttemptTooMany(i) == i <= MaxRetries + 1

\* for i := 0; i <= c.config.MaxRetries; i++
MoreAttempts(i) == i <= MaxRetries

\* one attempt: with a cancelled context it fails; a success returns at once, a failure
\* sleeps when a retry is left and else moves on to the loop's test
ClientAttempt ==
    /\ UNCHANGED cache
    /\ call.op \in ClientOps /\ call.pc = "attempt"
    /\ MoreAttempts(call.i)
    /\ \E a \in (IF ctxDone THEN {} ELSE {Some(v) : v \in Answers(call.op)}) \cup {NULL} :
          call' = IF a # NULL
                  THEN [call EXCEPT !.answers = Append(@, a), !.pc = "returned",
                                    !.result = a]
                  ELSE IF call.i < MaxRetries
                       THEN [call EXCEPT !.answers = Append(@, a), !.pc = "sleep"]
                       ELSE [call EXCEPT !.answers = Append(@, a), !.i = @ + 1]
    /\ UNCHANGED <<dbVars, daemonVars, bfVars, disruptions, hist>>

\* time.Sleep(c.config.RetryDelay) returns
ClientSleep ==
    /\ UNCHANGED cache
    /\ call.op \in ClientOps /\ call.pc = "sleep"
    /\ call' = [call EXCEPT !.pc = "attempt", !.i = @ + 1, !.sleeps = @ + 1]
    /\ UNCHANGED <<dbVars, daemonVars, bfVars, disruptions, hist>>

\* the loop is over: return the zero value and the error
ClientExhausted ==
    /\ UNCHANGED cache
    /\ call.op \in ClientOps /\ call.pc = "attempt"
    /\ ~MoreAttempts(call.i)
    /\ call' = [call EXCEPT !.pc = "returned", !.result = NULL, !.err = TRUE]
    /\ UNCHANGED <<dbVars, daemonVars, bfVars, disruptions, hist>>

ClientStep ==
    \/ ClientAttempt
    \/ ClientSleep
    \/ ClientExhausted

(* -------------------- the watermark store, called directly ---------------- *)

\* MockIndexerStateRepository.UpdateLastBlock: the block is set on a state the map
\* holds, and nil is returned either way
MockUpdateLastBlock(st, addr, blockNumber) ==
    IF addr \in DOMAIN st THEN [st EXCEPT ![addr].last_indexed_block = blockNumber] ELSE st

\* MockIndexerStateRepository.Upsert: m.states[state.TokenAddress] = state
MockUpsert(st, addr, row) ==
    [a \in DOMAIN st \cup {addr} |-> IF a = addr THEN row ELSE st[a]]

\* MockIndexerStateRepository.SetBackfilling
MockSetBackfilling(st, addr, isBackfilling, fromBlock, toBlock) ==
    IF addr \in DOMAIN st
    THEN [st EXCEPT ![addr].is_backfilling = isBackfilling,
                    ![addr].backfill_from_block = fromBlock,
                    ![addr].backfill_to_block = toBlock]
    ELSE st

\* the two implementations of IndexerStateRepository
StoreImpls == {"repo", "mock"}

\* the token with a row in tokens, and one without
StateAddrs == {"t1", "t0"}
StateHeights == 0..2

\* indexer_state.token_address REFERENCES tokens(address): the database refuses a new
\* state row of a token without a token row
StateInsertRefused(addr) ==
    call.impl = "repo" /\ addr \notin DOMAIN state /\ addr \notin DOMAIN tokens

StateCall(op, addr, h, refused) ==
    [op |-> op, pc |-> "returned", impl |-> call.impl, addr |-> addr, h |-> h,
     before |-> state, err |-> refused,
     repeat |-> call.op = op /\ call.addr = addr /\ call.h = h]

\* UpdateLastBlock(ctx, addr, h)
StateUpdateLastBlockCall(addr, h) ==
    /\ UNCHANGED cache
    /\ call.op \in {"none", "Upsert", "UpdateLastBlock", "SetBackfilling"}
    /\ state' = IF call.impl = "mock" THEN MockUpdateLastBlock(state, addr, h)
                ELSE IF StateInsertRefused(addr) THEN state
                ELSE UpdateLastBlock(state, addr, h)
    /\ call' = StateCall("UpdateLastBlock", addr, h, StateInsertRefused(addr))
    /\ UNCHANGED <<store, tokens, daemonVars, bfVars, disruptions, hist>>

\* Upsert(ctx, &IndexerState{TokenAddress: addr, LastIndexedBlock: h})
StateUpsertCall(addr, h) ==
    /\ UNCHANGED cache
    /\ call.op \in {"none", "Upsert", "UpdateLastBlock", "SetBackfilling"}
    /\ state' = IF call.impl = "mock" THEN MockUpsert(state, addr, NewState(h))
                ELSE IF StateInsertRefused(addr) THEN state
                ELSE Upsert(state, addr, NewState(h))
    /\ call' = StateCall("Upsert", addr, h, StateInsertRefused(addr))
    /\ UNCHANGED <<store, tokens, daemonVars, bfVars, disruptions, hist>>

\* SetBackfilling(ctx, addr, true, &from, &to)
StateSetBackfillingCall(addr, from) ==
    /\ UNCHANGED cache
    /\ call.op \in {"none", "Upsert", "UpdateLastBlock", "SetBackfilling"}
    /\ state' = IF call.impl = "mock"
                THEN MockSetBackfilling(state, addr, TRUE, Some(from), Some(from))
                ELSE SetBackfilling(state, addr, TRUE, Some(from), Some(from))
    /\ call' = StateCall("SetBackfilling", addr, from, FALSE)
    /\ UNCHANGED <<store, tokens, daemonVars, bfVars, disruptions, hist>>

(* -------------------- the token registry, called directly ----------------- *)

\* metadata a caller may hand to TokenRepo.Upsert
TokenInputs ==
    {PlaceholderToken,
     [name |-> "Tether", symbol |-> "USDT", decimals |-> 6, first_seen_block |-> Some(1)]}

\* UpdateStats(ctx, "t1", d, b) by a caller beside the daemon; the callers of this
\* repository pass a count of transfers, which is not negative
StatsCall(d, b) ==
    /\ UNCHANGED cache
    /\ call.seq < MaxCalls
    /\ tokens' = UpdateStats(tokens, "t1", d, b)
    /\ call' = [op |-> "UpdateStats", pc |-> "returned", seq |-> call.seq + 1,
                addr |-> "t1", d |-> d, b |-> b]
    /\ UNCHANGED <<store, state, daemonVars, bfVars, disruptions, hist>>

\* Upsert(ctx, &Token{Address: "t1", ...}) by a caller beside the daemon
TokenUpsertCall(tok) ==
    /\ UNCHANGED cache
    /\ call.seq < MaxCalls
    /\ tokens' = TokenUpsert(tokens, "t1", tok)
    /\ call' = [op |-> "TokenUpsert", pc |-> "returned", seq |-> call.seq + 1,
                addr |-> "t1", d |-> 0, b |-> 0]
    /\ UNCHANGED <<store, state, daemonVars, bfVars, disruptions, hist>>

(* ----------------------------- holder queries --------------------------- *)

Holders == {"a", "b"}

\* the addresses in the order of their strings
AddressOrder == <<"a", "b", "z">>
AddressLess(x, y) ==
    \E i, j \in DOMAIN AddressOrder : AddressOrder[i] = x /\ AddressOrder[j] = y /\ i < j

\* transfers to the holders, from one another, from themselves and from the address
\* "z" that only sends
HolderRows ==
    [tx_hash : 1..MaxHolderTx, log_index : {0}, block_number : {1},
     block_timestamp : {BlockTimestamp(1)}, token_address : {"t1"},
     from_address : Holders \cup {"z"}, to_address : Holders, value : {5}]

\* SQL SUM of f over the rows S
RECURSIVE SumOver(_, _)
SumOver(f, S) ==
    IF S = {} THEN 0
    ELSE LET r == CHOOSE x \in S : TRUE IN f[r] + SumOver(f, S \ {r})

\* FROM transfers WHERE token_address = $1
TransfersOf(st, tokenAddress) == {r \in BagToSet(st) : r.token_address = tokenAddress}

\* the balance of GetHolderBalance: one CASE per row, whose first matching branch counts
CaseBalance(st, tokenAddress, holderAddress) ==
    LET rows == {r \in TransfersOf(st, tokenAddress) :
                    r.to_address = holderAddress \/ r.from_address = holderAddress}
    IN SumOver([r \in rows |->
                  CopiesIn(r, st) * (IF r.to_address = holderAddress THEN r.value
                                     ELSE IF r.from_address = holderAddress THEN 0 - r.value
                                     ELSE 0)], rows)

\* the CTE balances: UNION ALL of the incoming and the outgoing side of every row,
\* GROUP BY address HAVING SUM(amount) > 0
Balances(st, tokenAddress) ==
    LET rows == TransfersOf(st, tokenAddress)
        sum(a) == SumOver([r \in rows |->
                             CopiesIn(r, st) * ((IF r.to_address = a THEN r.value ELSE 0)
                                                + (IF r.from_address = a THEN 0 - r.value ELSE 0))],
                          rows)
        addresses == {r.to_address : r \in rows} \cup {r.from_address : r \in rows}
    IN [a \in {x \in addresses : sum(x) > 0} |-> sum(a)]

\* GetHolderBalance: the balance, and the rank counted over the CTE
GetHolderBalance(st, tokenAddress, holderAddress) ==
    LET balance == CaseBalance(st, tokenAddress, holderAddress)
        balances == Balances(st, tokenAddress)
    IN [Address |-> holderAddress, Balance |-> balance,
        Rank |-> Cardinality({a \in DOMAIN balances : balances[a] > balance}) + 1]

\* GetTopHolders: ORDER BY balance DESC leaves the order of equal balances open, so
\* every order the database may answer, cut at limit
GetTopHolders(st, tokenAddress, limit) ==
    LET balances == Balances(st, tokenAddress)
        n == Cardinality(DOMAIN balances)
        orders == {o \in [1..n -> DOMAIN balances] :
                      /\ \A i, j \in 1..n : i # j => o[i] # o[j]
                      /\ \A i, j \in 1..n : i < j => balances[o[i]] >= balances[o[j]]}
    IN {[i \in 1..Min(limit, n) |->
            [Address |-> o[i], Balance |-> balances[o[i]], Rank |-> i]] : o \in orders}

\* GetWalletHoldingByToken: tokens LEFT JOIN transfers; NULL stands for sql.ErrNoRows
GetWalletHoldingByToken(tk, st, walletAddress, tokenAddress) ==
    IF tokenAddress \notin DOMAIN tk THEN NULL
    ELSE LET rows == {r \in TransfersOf(st, tokenAddress) :
                         r.from_address = walletAddress \/ r.to_address = walletAddress}
         IN Some([TokenAddress |-> tokenAddress, TokenName |-> tk[tokenAddress].name,
                  Decimals |-> tk[tokenAddress].decimals,
                  Balance |->
                    SumOver([r \in rows |-> CopiesIn(r, st)
                               * (IF r.to_address = walletAddress THEN r.value ELSE 0)], rows)
                    - SumOver([r \in rows |-> CopiesIn(r, st)
                                 * (IF r.from_address = walletAddress THEN r.value ELSE 0)],
                              rows)])

\* a transfer is stored
HolderInsert(r) ==
    /\ UNCHANGED cache
    /\ ForeignKeyOk(<<r>>)
    /\ store' = BatchInsert(store, <<r>>)
    /\ call' = [op |-> "none", pc |-> "none"]
    /\ UNCHANGED <<tokens, state, daemonVars, bfVars, disruptions, hist>>

\* the three queries are asked about one holder of "t1"
HolderQuery(holderAddress, limit) ==
    /\ UNCHANGED cache
    /\ \E top \in GetTopHolders(store, "t1", limit) :
          call' = [op |-> "HolderQueries", pc |-> "returned", addr |-> holderAddress,
                   limit |-> limit,
                   single |-> GetHolderBalance(store, "t1", holderAddress),
                   top |-> top,
                   holding |-> GetWalletHoldingByToken(tokens, store, holderAddress, "t1")]
    /\ UNCHANGED <<dbVars, daemonVars, bfVars, disruptions, hist>>

(* ------------------------ SplitBlockRange, called ----------------------- *)

\* SplitBlockRange is called with any two blocks and a batch size of at least one
SplitCall(fromBlock, toBlock, batchSize) ==
    /\ call' = [op |-> "SplitBlockRange", pc |-> "returned", from |-> fromBlock,
                to |-> toBlock, batchSize |-> batchSize,
                ranges |-> SplitBlockRange(fromBlock, toBlock, batchSize)]
    /\ UNCHANGED <<dbVars, daemonVars, bfVars, disruptions, hist, cache>>

(* ------------------ SplitBlockRange, turn by turn of its loop ----------- *)

\* the batch sizes an unvalidated configuration can hand over
SplitBatchSizes == (-1)..MaxSplitBatch

\* the ranges the process's memory holds: more than any call of the model that
\* ends appends (the int64 of current does not wrap before memory is used up)
MaxRangesInMemory == MaxSplitBlock + 2

\* the call and its early return: if fromBlock > toBlock { return nil }
SplitStart(fromBlock, toBlock, batchSize) ==
    /\ call.op = "none"
    /\ call' = [op |-> "SplitBlockRange",
                pc |-> IF fromBlock > toBlock THEN "returned" ELSE "loop",
                from |-> fromBlock, to |-> toBlock, batchSize |-> batchSize,
                current |-> fromBlock, ranges |-> <<>>]
    /\ UNCHANGED <<dbVars, daemonVars, bfVars, disruptions, hist, cache>>

\* one turn of for current := fromBlock; current <= toBlock; current += batchSize:
\* the test, the append of the range and the step; an append the memory cannot
\* hold ends the process (fatal error: runtime: out of memory)
SplitTurn ==
    /\ call.op = "SplitBlockRange" /\ call.pc = "loop"
    /\ call' =
         IF call.current > call.to THEN [call EXCEPT !.pc = "returned"]
         ELSE IF Len(call.ranges) >= MaxRangesInMemory
              THEN [call EXCEPT !.pc = "out of memory"]
         ELSE [call EXCEPT
                 !.ranges = Append(@, [From |-> call.current,
                                       To |-> Min(call.current + call.batchSize - 1,
                                                  call.to)]),
                 !.current = @ + call.batchSize]
    /\ UNCHANGED <<dbVars, daemonVars, bfVars, disruptions, hist, cache>>

\* the caller goes on to its next call
SplitNext ==
    /\ call.op = "SplitBlockRange" /\ call.pc = "returned"
    /\ call' = [op |-> "none", pc |-> "none"]
    /\ UNCHANGED <<dbVars, daemonVars, bfVars, disruptions, hist, cache>>

(* ------------------- ParseTransferEvent, byte by byte ------------------- *)

\* common.HashLength, common.AddressLength, and the length of the data of a Transfer
HashLength == 32
AddressLength == 20
DataLength == 32

TransferEventSignature ==
    <<221, 242, 82, 173, 27, 226, 200, 155, 105, 194, 176, 104, 252, 55, 141, 170,
      149, 43, 167, 241, 99, 196, 161, 22, 40, 245, 90, 77, 245, 35, 179, 239>>

\* the signature of Approval(address,address,uint256)
ApprovalEventSignature ==
    <<140, 91, 225, 229, 235, 236, 125, 91, 209, 79, 113, 66, 125, 30, 132, 243,
      221, 3, 20, 192, 247, 178, 41, 30, 91, 32, 10, 200, 199, 195, 185, 37>>

\* n bytes: zeros (or the byte pad) before the bytes tail
Padded(n, pad, tail) == [i \in 1..n |-> IF i <= n - Len(tail) THEN pad ELSE tail[i - n + Len(tail)]]

\* common.BytesToAddress: the last AddressLength bytes, zeros in front of fewer
BytesToAddressHigh(b) == SubSeq(b, 1, AddressLength)
BytesToAddress(b) ==
    IF Len(b) > AddressLength THEN SubSeq(b, Len(b) - AddressLength + 1, Len(b))
    ELSE Padded(AddressLength, 0, b)

HexDigits == <<"0", "1", "2", "3", "4", "5", "6", "7", "8", "9", "a", "b", "c", "d", "e", "f">>
HexDigitsUpper == <<"0", "1", "2", "3", "4", "5", "6", "7", "8", "9", "A", "B", "C", "D", "E", "F">>

\* Address.Hex: "0x" and two digits a byte, with the letters the checksum
\* capitalises in capitals: here all of them
AddressHex(addr) ==
    <<"0x">> \o [i \in 1..(2 * Len(addr)) |->
                  IF i % 2 = 1 THEN HexDigitsUpper[(addr[(i + 1) \div 2] \div 16) + 1]
                  ELSE HexDigitsUpper[(addr[i \div 2] % 16) + 1]]

\* strings.ToLower on the characters of a hex string
LowerChar(c) ==
    IF \E k \in DOMAIN HexDigitsUpper : HexDigitsUpper[k] = c
    THEN HexDigits[CHOOSE k \in DOMAIN HexDigitsUpper : HexDigitsUpper[k] = c]
    ELSE c
ToLowerHex(str) == [i \in DOMAIN str |-> LowerChar(str[i])]

\* big.Int.SetBytes: the bytes as a big-endian unsigned integer, kept as its
\* digits to the base 256 without leading zeros, and never negative
RECURSIVE StripZeros(_)
StripZeros(b) == IF Len(b) > 0 /\ b[1] = 0 THEN StripZeros(Tail(b)) ELSE b
SetBytes(data) == [neg |-> FALSE, abs |-> StripZeros(data)]

\* ParseTransferEvent on the bytes of a log: the error, or the transfer
ParseLog(log, blockTimestamp) ==
    IF Len(log.Topics) # 3
    THEN [err |-> "invalid number of topics", transfer |-> NULL]
    ELSE IF log.Topics[1] # TransferEventSignature
    THEN [err |-> "not a Transfer event", transfer |-> NULL]
    ELSE IF Len(log.Data) # DataLength
    THEN [err |-> "invalid data length", transfer |-> NULL]
    ELSE [err |-> "none",
          transfer |->
            Some([TxHash |-> log.TxHash, LogIndex |-> log.Index,
                  BlockNumber |-> log.BlockNumber, BlockTimestamp |-> blockTimestamp,
                  TokenAddress |-> ToLowerHex(AddressHex(log.Address)),
                  FromAddress |-> ToLowerHex(AddressHex(BytesToAddress(log.Topics[2]))),
                  ToAddress |-> ToLowerHex(AddressHex(BytesToAddress(log.Topics[3]))),
                  Value |-> SetBytes(log.Data)])]

\* topics a log may carry after the first: an address behind zeros, an address
\* behind bytes that are not zero, and the zero address
AddressTopics ==
    {Padded(HashLength, 0, [i \in 1..AddressLength |-> 160 + i]),
     Padded(HashLength, 255, [i \in 1..AddressLength |-> 10 * i]),
     Padded(HashLength, 0, <<>>)}

\* data a log may carry: of the length of a value, with its highest bit set or
\* not, and shorter, longer and empty
LogData ==
    {Padded(DataLength, 0, <<1, 2>>), Padded(DataLength, 0, <<>>),
     Padded(DataLength, 255, <<>>), Padded(DataLength - 1, 0, <<1, 2>>),
     Padded(DataLength + 1, 0, <<1, 2>>), <<>>}

\* the logs a node may answer, with up to MaxTopics topics
RawLogs ==
    {[TxHash |-> 1, Index |-> 0, BlockNumber |-> 1,
      Address |-> [i \in 1..AddressLength |-> 170 + i], Topics |-> topics, Data |-> data] :
        topics \in UNION {[1..n -> {TransferEventSignature, ApprovalEventSignature}
                                     \cup AddressTopics] : n \in 0..MaxTopics},
        data \in LogData}

\* ParseTransferEvent is called
ParseCall(log) ==
    /\ call.op = "none"
    /\ call' = [op |-> "ParseTransferEvent", pc |-> "returned", log |-> log,
                result |-> ParseLog(log, BlockTimestamp(log.BlockNumber))]
    /\ UNCHANGED <<dbVars, daemonVars, bfVars, disruptions, hist, cache>>

(* ------------------------- the token list query ------------------------ *)

validSortColumns ==
    {"address", "name", "symbol", "decimals", "total_indexed_transfers",
     "first_seen_block", "last_seen_block", "created_at", "updated_at"}

\* GetAllPaginated: the sort column and the sort order that go into the query text
SortColumnUnchecked(sortBy) == sortBy
SortColumn(sortBy) ==
    IF sortBy \in validSortColumns THEN sortBy ELSE "total_indexed_transfers"
SortOrder(sortOrder) == IF sortOrder # "asc" /\ sortOrder # "desc" THEN "desc" ELSE sortOrder

\* GetAllPaginated: the text of the page query, in its pieces, and its arguments
GetAllPaginatedQuery(limit, offset, sortBy, sortOrder) ==
    [text |-> <<"SELECT * FROM tokens ORDER BY ", SortColumn(sortBy), " ",
                SortOrder(sortOrder), " LIMIT $1 OFFSET $2">>,
     args |-> <<limit, offset>>]

\* what a caller may pass as sort_by and sort_order: the columns and directions,
\* other spellings, other columns, and text that would change the statement
SortByInputs ==
    validSortColumns \cup {"", "NAME", "balance", "name; DROP TABLE tokens; --", "1"}
SortOrderInputs == {"asc", "desc", "", "ASC", "descending", "desc; DROP TABLE tokens; --"}

\* GetAllPaginated is called
TokenListCall(limit, offset, sortBy, sortOrder) ==
    /\ call' = [op |-> "GetAllPaginated", pc |-> "returned", sortBy |-> sortBy,
                sortOrder |-> sortOrder,
                query |-> GetAllPaginatedQuery(limit, offset, sortBy, sortOrder)]
    /\ UNCHANGED <<dbVars, daemonVars, bfVars, disruptions, hist, cache>>

(* ---------------------------- query services ---------------------------- *)

\* the cache a service was given: none (a nil *RedisCache), or Redis with its entries
NilCache == [configured |-> FALSE, entries |-> <<>>]
EmptyCache == [configured |-> TRUE, entries |-> <<>>]

\* RedisCache.Get: the entry, ErrCacheMiss, or an error of Redis or of the decoding
CacheGet(key) ==
    IF key \in DOMAIN cache.entries THEN {"hit", "error"} ELSE {"miss", "error"}

\* RedisCache.Set and SetWithTTL: the entry is written, after Redis has evicted an
\* entry when it holds MaxCached of them, or the call fails and nothing is written
CacheSet(key, value) ==
    LET e == cache.entries
        kept == IF key \in DOMAIN e \/ Cardinality(DOMAIN e) < MaxCached
                THEN {DOMAIN e \ {key}}
                ELSE {DOMAIN e \ {k} : k \in DOMAIN e}
    IN {[ok |-> FALSE, cache |-> cache]}
       \cup {[ok |-> TRUE,
              cache |-> [cache EXCEPT !.entries =
                            [k \in K \cup {key} |-> IF k = key THEN value ELSE e[k]]]] :
             K \in kept}

\* the time to live of an entry ends
CacheExpire(key) ==
    /\ key \in DOMAIN cache.entries
    /\ cache' = [cache EXCEPT !.entries = [k \in DOMAIN cache.entries \ {key} |-> @[k]]]
    /\ UNCHANGED <<dbVars, daemonVars, bfVars, disruptions, hist, call>>

DefaultTransferFilter ==
    [TokenAddress |-> NULL, FromAddress |-> NULL, ToAddress |-> NULL, Address |-> NULL,
     FromBlock |-> NULL, ToBlock |-> NULL, FromTime |-> NULL, ToTime |-> NULL,
     Limit |-> 100, Offset |-> 0]

\* buildFilterQuery: the WHERE clause
FilterMatches(r, filter) ==
    /\ filter.TokenAddress # NULL => r.token_address = filter.TokenAddress[1]
    /\ filter.FromAddress # NULL => r.from_address = filter.FromAddress[1]
    /\ filter.ToAddress # NULL => r.to_address = filter.ToAddress[1]
    /\ filter.Address # NULL =>
          (r.from_address = filter.Address[1] \/ r.to_address = filter.Address[1])
    /\ filter.FromBlock # NULL => r.block_number >= filter.FromBlock[1]
    /\ filter.ToBlock # NULL => r.block_number <= filter.ToBlock[1]
    /\ filter.FromTime # NULL => r.block_timestamp >= filter.FromTime[1]
    /\ filter.ToTime # NULL => r.block_timestamp <= filter.ToTime[1]

\* LIMIT limit OFFSET offset of the rows in the order o
PageOf(o, limit, offset) ==
    [i \in 1..Max(0, Min(limit, Len(o) - offset)) |-> o[offset + i]]

\* GetByFilter: ORDER BY block_timestamp DESC, log_index DESC LIMIT .. OFFSET ..;
\* every order the database may answer for rows equal in both
GetByFilter(st, filter) ==
    LET rows == {r \in BagToSet(st) : FilterMatches(r, filter)}
        n == Cardinality(rows)
        orders == {o \in [1..n -> rows] :
                      /\ \A i, j \in 1..n : i # j => o[i] # o[j]
                      /\ \A i, j \in 1..n : i < j =>
                            \/ o[i].block_timestamp > o[j].block_timestamp
                            \/ /\ o[i].block_timestamp = o[j].block_timestamp
                               /\ o[i].log_index >= o[j].log_index}
    IN {PageOf(o, filter.Limit, filter.Offset) : o \in orders}

\* GetCount: SELECT COUNT(*) under the same WHERE clause
GetCount(st, filter) ==
    LET rows == {r \in BagToSet(st) : FilterMatches(r, filter)}
    IN SumOver([r \in rows |-> CopiesIn(r, st)], rows)

\* generateCacheKey: the parts that are appended, joined; the eight bytes of the
\* SHA-256 stand for the joined string
KeyPart(tag, v) == IF v = NULL THEN <<>> ELSE <<<<tag, v[1]>>>>
generateCacheKey(filter) ==
    <<"transfers",
      KeyPart("token:", filter.TokenAddress) \o KeyPart("from:", filter.FromAddress)
        \o KeyPart("to:", filter.ToAddress) \o KeyPart("addr:", filter.Address)
        \o KeyPart("fb:", filter.FromBlock) \o KeyPart("tb:", filter.ToBlock)
        \o <<<<"l:o:", filter.Limit, filter.Offset>>>>>>

\* the response GetTransfers builds from the page and the count
TransferResponse(filter, transfers, total) ==
    [Transfers |-> transfers, Total |-> total, Limit |-> filter.Limit,
     Offset |-> filter.Offset, HasMore |-> filter.Offset + Len(transfers) < total]

\* the outcome of the cache.Set that ends a request: none without a cache
SetAtEnd(key, response) ==
    IF cache.configured THEN CacheSet(key, response) ELSE {[ok |-> TRUE, cache |-> cache]}

\* a query of a service's repository succeeds or fails
QueryOutcomes == {"ok", "fault"}

\* the filters whose keys are compared: every field absent or present, two limits
\* and two offsets
KeyFilters ==
    [TokenAddress : {NULL, Some("t1")}, FromAddress : {NULL, Some("a")},
     ToAddress : {NULL, Some("a")}, Address : {NULL, Some("a")},
     FromBlock : {NULL, Some(1)}, ToBlock : {NULL, Some(1)},
     FromTime : {NULL, Some(BlockTimestamp(1))}, ToTime : {NULL, Some(BlockTimestamp(1))},
     Limit : {1, 2}, Offset : {0, 1}]

\* the values one field of a filter may take
FieldValues(field) == {filter[field] : filter \in KeyFilters}

\* the keys of a filter and of a filter that differs from it in at most one field
KeyCall(filter, field, v) ==
    /\ call.op = "none"
    /\ call' = [op |-> "generateCacheKey", pc |-> "returned", filter |-> filter,
                other |-> [filter EXCEPT ![field] = v],
                key |-> generateCacheKey(filter),
                otherKey |-> generateCacheKey([filter EXCEPT ![field] = v])]
    /\ UNCHANGED <<dbVars, daemonVars, bfVars, disruptions, hist, cache>>

\* whether a request fails when its cache.Set has failed: the error is logged
FailsOnSetErrorToo(ok) == ~ok
FailsOnSetError(ok) == FALSE

ApiIdle == call.op = "none" \/ call.pc = "returned"

\* GetTransfers up to its database queries: the key, and the cache lookup
GetTransfersCall(filter) ==
    /\ ApiIdle
    /\ LET cacheKey == generateCacheKey(filter)
       IN \E o \in IF cache.configured THEN CacheGet(cacheKey) ELSE {"none"} :
             call' = [op |-> "GetTransfers", filter |-> filter, key |-> cacheKey,
                      lookups |-> <<o>>, setOk |-> TRUE, dbErr |-> FALSE, err |-> FALSE,
                      pc |-> IF o = "hit" THEN "returned" ELSE "page",
                      rows |-> <<>>, total |-> 0,
                      response |-> IF o = "hit" THEN Some(cache.entries[cacheKey]) ELSE NULL]
    /\ UNCHANGED <<dbVars, daemonVars, bfVars, disruptions, hist, cache>>

\* transferRepo.GetByFilter
GetTransfersPage ==
    /\ call.op = "GetTransfers" /\ call.pc = "page"
    /\ \E o \in QueryOutcomes :
          IF o = "ok"
             THEN \E transfers \in GetByFilter(store, call.filter) :
                     call' = [call EXCEPT !.pc = "count", !.rows = transfers]
             ELSE call' = [call EXCEPT !.pc = "returned", !.dbErr = TRUE, !.err = TRUE]
    /\ UNCHANGED <<dbVars, daemonVars, bfVars, disruptions, hist, cache>>

\* transferRepo.GetCount, the response, and the cache.Set whose error is logged
GetTransfersCount ==
    /\ call.op = "GetTransfers" /\ call.pc = "count"
    /\ \E o \in QueryOutcomes :
          IF o = "ok"
             THEN LET total == GetCount(store, call.filter)
                      response == TransferResponse(call.filter, call.rows, total)
                  IN \E set \in SetAtEnd(call.key, response) :
                        /\ cache' = set.cache
                        /\ call' = [call EXCEPT !.pc = "returned", !.total = total,
                                                !.setOk = set.ok,
                                                !.err = FailsOnSetError(set.ok),
                                                !.response = IF FailsOnSetError(set.ok)
                                                             THEN NULL ELSE Some(response)]
             ELSE /\ call' = [call EXCEPT !.pc = "returned", !.dbErr = TRUE, !.err = TRUE]
                  /\ UNCHANGED cache
    /\ UNCHANGED <<dbVars, daemonVars, bfVars, disruptions, hist>>

\* strings.ToLower on the addresses of the model
ToLower(s) == IF s = "T1" THEN "t1" ELSE s

\* GetHolderCount: the addresses with a positive balance
GetHolderCount(st, tokenAddress) == Cardinality(DOMAIN Balances(st, tokenAddress))

\* GetTopHoldersWithOffset: the holders by balance, LIMIT limit OFFSET offset, ranked
\* by their place in the whole order
GetTopHoldersWithOffset(st, tokenAddress, limit, offset) ==
    LET balances == Balances(st, tokenAddress)
        n == Cardinality(DOMAIN balances)
    IN {PageOf(o, limit, offset) : o \in GetTopHolders(st, tokenAddress, n)}

\* the limit and the offset GetTopHolders works with
HoldersLimit(limit) == IF limit <= 0 THEN 100 ELSE IF limit > 1000 THEN 1000 ELSE limit
HoldersOffset(offset) == IF offset < 0 THEN 0 ELSE offset

TopHoldersResponse(holders, total, limit, offset) ==
    [Data |-> holders,
     Pagination |-> [Total |-> total, Limit |-> limit, Offset |-> offset,
                     HasMore |-> offset + limit < total]]

\* HoldersService.GetTopHolders up to the token check: the key, and the cache lookup
TopHoldersCall(tokenAddress, limit, offset) ==
    /\ ApiIdle
    /\ LET cacheKey == <<"holders", ToLower(tokenAddress), HoldersLimit(limit),
                         HoldersOffset(offset)>>
       IN \E o \in IF cache.configured THEN CacheGet(cacheKey) ELSE {"none"} :
             call' = [op |-> "GetTopHolders", token |-> ToLower(tokenAddress),
                      limit |-> HoldersLimit(limit), offset |-> HoldersOffset(offset),
                      key |-> cacheKey, lookups |-> <<o>>, setOk |-> TRUE,
                      dbErr |-> FALSE, err |-> FALSE,
                      pc |-> IF o = "hit" THEN "returned" ELSE "token",
                      total |-> 0,
                      response |-> IF o = "hit" THEN Some(cache.entries[cacheKey]) ELSE NULL]
    /\ UNCHANGED <<dbVars, daemonVars, bfVars, disruptions, hist, cache>>

\* tokenRepo.GetByAddress: a token without a row ends the request with nil, nil
TopHoldersToken ==
    /\ call.op = "GetTopHolders" /\ call.pc = "token"
    /\ \E o \in QueryOutcomes :
          call' = IF o # "ok"
                     THEN [call EXCEPT !.pc = "returned", !.dbErr = TRUE, !.err = TRUE]
                     ELSE IF call.token \notin DOMAIN tokens
                     THEN [call EXCEPT !.pc = "returned"]
                     ELSE [call EXCEPT !.pc = "count"]
    /\ UNCHANGED <<dbVars, daemonVars, bfVars, disruptions, hist, cache>>

\* the total: the cached count, or GetHolderCount and the SetWithTTL whose error is logged
TopHoldersCount ==
    /\ call.op = "GetTopHolders" /\ call.pc = "count"
    /\ LET countCacheKey == <<"holders_count", call.token>>
       IN \E g \in IF cache.configured THEN CacheGet(countCacheKey) ELSE {"none"} :
             IF g = "hit"
             THEN /\ call' = [call EXCEPT !.pc = "page", !.lookups = Append(@, g),
                                          !.total = cache.entries[countCacheKey]]
                  /\ UNCHANGED cache
             ELSE \E o \in QueryOutcomes :
                     IF o = "ok"
                        THEN LET total == GetHolderCount(store, call.token)
                             IN \E set \in SetAtEnd(countCacheKey, total) :
                                   /\ cache' = set.cache
                                   /\ call' = [call EXCEPT !.pc = "page",
                                                           !.lookups = Append(@, g),
                                                           !.total = total,
                                                           !.setOk = set.ok]
                        ELSE /\ call' = [call EXCEPT !.pc = "returned",
                                                     !.lookups = Append(@, g),
                                                     !.dbErr = TRUE, !.err = TRUE]
                             /\ UNCHANGED cache
    /\ UNCHANGED <<dbVars, daemonVars, bfVars, disruptions, hist>>

\* GetTopHoldersWithOffset, the response, and the SetWithTTL whose error is logged
TopHoldersPage ==
    /\ call.op = "GetTopHolders" /\ call.pc = "page"
    /\ \E o \in QueryOutcomes :
          IF o = "ok"
             THEN \E holders \in GetTopHoldersWithOffset(store, call.token, call.limit,
                                                         call.offset) :
                     LET response == TopHoldersResponse(holders, call.total, call.limit,
                                                        call.offset)
                     IN \E set \in SetAtEnd(call.key, response) :
                           /\ cache' = set.cache
                           /\ call' = [call EXCEPT !.pc = "returned",
                                                   !.setOk = @ /\ set.ok,
                                                   !.err = FailsOnSetError(set.ok),
                                                   !.response = IF FailsOnSetError(set.ok)
                                                                THEN NULL ELSE Some(response)]
             ELSE /\ call' = [call EXCEPT !.pc = "returned", !.dbErr = TRUE, !.err = TRUE]
                  /\ UNCHANGED cache
    /\ UNCHANGED <<dbVars, daemonVars, bfVars, disruptions, hist>>

\* HoldersService.GetHolderBalance: the cache lookup, the token check that ends the
\* request with nil, nil for a token without a row, the balance, and the SetWithTTL
\* whose error is logged
HolderBalanceCall(tokenAddress, holderAddress) ==
    /\ ApiIdle
    /\ LET cacheKey == <<"holder", ToLower(tokenAddress), ToLower(holderAddress)>>
           holder == GetHolderBalance(store, ToLower(tokenAddress), ToLower(holderAddress))
           response == [Data |-> holder]
           base == [op |-> "GetHolderBalance", pc |-> "returned",
                    token |-> ToLower(tokenAddress), addr |-> ToLower(holderAddress),
                    setOk |-> TRUE, dbErr |-> FALSE, err |-> FALSE, response |-> NULL]
       IN \E g \in IF cache.configured THEN CacheGet(cacheKey) ELSE {"none"} :
             IF g = "hit"
             THEN /\ call' = [base EXCEPT !.response = Some(cache.entries[cacheKey])] @@ [lookups |-> <<g>>]
                  /\ UNCHANGED cache
             ELSE \E o, p \in QueryOutcomes :
                     IF o = "fault" \/ (ToLower(tokenAddress) \in DOMAIN tokens /\ p = "fault")
                     THEN /\ call' = [base EXCEPT !.dbErr = TRUE, !.err = TRUE] @@ [lookups |-> <<g>>]
                          /\ UNCHANGED cache
                     ELSE IF ToLower(tokenAddress) \notin DOMAIN tokens
                     THEN /\ call' = base @@ [lookups |-> <<g>>]
                          /\ UNCHANGED cache
                     ELSE \E set \in SetAtEnd(cacheKey, response) :
                             /\ cache' = set.cache
                             /\ call' = [base EXCEPT !.setOk = set.ok,
                                                     !.err = FailsOnSetError(set.ok),
                                                     !.response = Some(response)]
                                        @@ [lookups |-> <<g>>]
    /\ UNCHANGED <<dbVars, daemonVars, bfVars, disruptions, hist>>

\* PortfolioService.GetPortfolioByToken: the cache lookup, GetWalletHoldingByToken,
\* whose sql.ErrNoRows for a token without a row comes back as an error, and the
\* SetWithTTL whose error is logged
PortfolioByTokenCall(walletAddress, tokenAddress) ==
    /\ ApiIdle
    /\ LET cacheKey == <<"portfolio", ToLower(walletAddress), ToLower(tokenAddress)>>
           holding == GetWalletHoldingByToken(tokens, store, ToLower(walletAddress),
                                              ToLower(tokenAddress))
           base == [op |-> "GetPortfolioByToken", pc |-> "returned",
                    token |-> ToLower(tokenAddress), addr |-> ToLower(walletAddress),
                    setOk |-> TRUE, dbErr |-> FALSE, err |-> FALSE, response |-> NULL]
       IN \E g \in IF cache.configured THEN CacheGet(cacheKey) ELSE {"none"} :
             IF g = "hit"
             THEN /\ call' = [base EXCEPT !.response = Some(cache.entries[cacheKey])] @@ [lookups |-> <<g>>]
                  /\ UNCHANGED cache
             ELSE \E o \in QueryOutcomes :
                     IF o = "fault"
                     THEN /\ call' = [base EXCEPT !.dbErr = TRUE, !.err = TRUE] @@ [lookups |-> <<g>>]
                          /\ UNCHANGED cache
                     ELSE IF holding = NULL
                     THEN /\ call' = [base EXCEPT !.err = TRUE] @@ [lookups |-> <<g>>]
                          /\ UNCHANGED cache
                     ELSE \E set \in SetAtEnd(cacheKey, [Data |-> holding[1]]) :
                             /\ cache' = set.cache
                             /\ call' = [base EXCEPT !.setOk = set.ok,
                                                     !.err = FailsOnSetError(set.ok),
                                                     !.response = Some([Data |-> holding[1]])]
                                        @@ [lookups |-> <<g>>]
    /\ UNCHANGED <<dbVars, daemonVars, bfVars, disruptions, hist>>

\* the transfers the indexer may store while the services answer: one per block,
\* from the address "z" to the holders in turn
ApiRows ==
    {[tx_hash |-> k, log_index |-> 0, block_number |-> k,
      block_timestamp |-> BlockTimestamp(k), token_address |-> "t1",
      from_address |-> "z", to_address |-> IF k % 2 = 1 THEN "a" ELSE "b",
      value |-> 5] : k \in 1..MaxPageRows}

\* the indexer stores the transfer of the next block while a request may be under way
ApiInsert(r) ==
    /\ r.block_number = BagCardinality(store) + 1
    /\ store' = BatchInsert(store, <<r>>)
    /\ UNCHANGED <<tokens, state, daemonVars, bfVars, disruptions, hist, call, cache>>

\* the requests of the model: pages of the transfers, and pages of the holders of a
\* token that has a row and of one that has none
ApiFilters ==
    {[DefaultTransferFilter EXCEPT !.Limit = l, !.Offset = o] : l \in {1, 2}, o \in {0, 1}}
ApiTokens == {"T1", "t2"}
ApiLimits == {0, 1}
ApiOffsets == {-1, 1}

(* --------------- fetchBlockTimestamps, lookup by lookup ---------------- *)

\* the block numbers a fetch may have to resolve
StampBlocks == SUBSET (1..MaxLatest)

\* fetchBlockTimestamps is called by FetchTransfers with the blocks of its logs;
\* the call is followed from the moment the tick has filled its group
StampsCall(blockNumbers) ==
    /\ call.op = "none"
    /\ loop.pc = "spawn"
    /\ Cardinality(Running) = Min(WorkerCount, Len(config))
    /\ \A t \in Running : task[t].pc = "get"
    /\ call' = [op |-> "fetchBlockTimestamps",
                pc |-> IF blockNumbers = {} THEN "wait" ELSE "go",
                blockNumbers |-> blockNumbers, todo |-> blockNumbers, active |-> {},
                timestamps |-> <<>>, err |-> FALSE, result |-> NULL]
    /\ UNCHANGED <<dbVars, daemonVars, bfVars, disruptions, hist, cache>>

\* g.Go for the next block of the map, in any order: it starts a lookup once the
\* group is below its limit
StampsGo(b) ==
    /\ call.op = "fetchBlockTimestamps" /\ call.pc = "go"
    /\ b \in call.todo
    /\ ~LimitReached(Cardinality(call.active))
    /\ call' = [call EXCEPT !.todo = @ \ {b}, !.active = @ \cup {b},
                            !.pc = IF call.todo = {b} THEN "wait" ELSE "go"]
    /\ UNCHANGED <<dbVars, daemonVars, bfVars, disruptions, hist, cache>>

\* a lookup goroutine: GetBlockTimestamp answers or fails; after the first error
\* the group's context is cancelled and every later answer is an error
StampsAnswer(b) ==
    /\ call.op = "fetchBlockTimestamps"
    /\ b \in call.active
    /\ \E o \in TxOutcomes(call.err) :
          call' = IF o = "ok"
                  THEN [call EXCEPT !.active = @ \ {b},
                                    !.timestamps = (b :> BlockTimestamp(b)) @@ @]
                  ELSE [call EXCEPT !.active = @ \ {b}, !.err = TRUE]
    /\ UNCHANGED <<dbVars, daemonVars, bfVars, disruptions, hist, cache>>

\* g.Wait returns when every lookup has returned: the first error, or the map
StampsWait ==
    /\ call.op = "fetchBlockTimestamps" /\ call.pc = "wait"
    /\ call.active = {}
    /\ call' = [call EXCEPT !.pc = "returned",
                            !.result = IF call.err THEN NULL ELSE Some(call.timestamps)]
    /\ UNCHANGED <<dbVars, daemonVars, bfVars, disruptions, hist, cache>>

(* ------------------- IndexerMetrics and its mutex ----------------------- *)

\* the goroutines that use the metrics: 0 is the indexing loop, 1..WorkerCount are
\* the per-token tasks of a tick, WorkerCount + 1 is a caller of GetMetrics
MetricProcs == 0..(WorkerCount + 1)

\* &IndexerMetrics{}
ZeroMetrics ==
    [BlocksIndexed |-> 0, TransfersIndexed |-> 0, LastIndexedBlock |-> 0, ErrorCount |-> 0]

\* what a goroutine is doing: the method, its arguments, and the values it has
\* loaded from the struct
IdleProc ==
    [pc |-> "idle", op |-> "none", blocks |-> 0, transfers |-> 0, lastBlock |-> 0,
     tmp |-> ZeroMetrics]

\* the methods a goroutine calls: updateMetrics(blocks, transfers, lastBlock) at the
\* end of a range, incrementErrorCount at the end of a failed tick, GetMetrics
MetricOps(p) ==
    IF p = 0 THEN {[IdleProc EXCEPT !.op = "incrementErrorCount"]}
    ELSE IF p = WorkerCount + 1 THEN {[IdleProc EXCEPT !.op = "GetMetrics"]}
    ELSE {[IdleProc EXCEPT !.op = "updateMetrics", !.blocks = 1, !.lastBlock = p],
          [IdleProc EXCEPT !.op = "updateMetrics", !.blocks = 2, !.transfers = 3,
                           !.lastBlock = p]}

CanLockAlways(mu) == TRUE

\* sync.RWMutex.Lock goes on when no writer and no reader holds the mutex
CanLock(mu) == mu.writer = {} /\ mu.readers = {}

\* sync.RWMutex.RLock goes on when no writer holds the mutex
CanRLock(mu) == mu.writer = {}

\* a goroutine calls one of the methods
MetricsCall(p, c) ==
    /\ call.op = "metrics" /\ call.procs[p].pc = "idle"
    /\ call.n < MaxMetricCalls
    /\ call' = [call EXCEPT !.procs[p] = [c EXCEPT !.pc = "lock"], !.n = @ + 1]
    /\ UNCHANGED <<dbVars, daemonVars, bfVars, disruptions, hist, cache>>

\* s.metrics.mu.Lock(), or RLock() in GetMetrics
MetricsLock(p) ==
    /\ call.op = "metrics" /\ call.procs[p].pc = "lock"
    /\ IF call.procs[p].op = "GetMetrics"
       THEN /\ CanRLock(call.mu)
            /\ call' = [call EXCEPT !.procs[p].pc = "load", !.mu.readers = @ \cup {p}]
       ELSE /\ CanLock(call.mu)
            /\ call' = [call EXCEPT !.procs[p].pc = "load", !.mu.writer = @ \cup {p}]
    /\ UNCHANGED <<dbVars, daemonVars, bfVars, disruptions, hist, cache>>

\* the loads of `+=` and `++`, and the first fields GetMetrics copies
MetricsLoad(p) ==
    /\ call.op = "metrics" /\ call.procs[p].pc = "load"
    /\ call' = [call EXCEPT !.procs[p].pc = "store", !.procs[p].tmp = metrics]
    /\ UNCHANGED <<dbVars, daemonVars, bfVars, disruptions, hist, cache>>

\* the stores of `+=` and `++`, or the rest of the copy GetMetrics returns, and the
\* deferred Unlock or RUnlock
MetricsStore(p) ==
    /\ call.op = "metrics" /\ call.procs[p].pc = "store"
    /\ LET c == call.procs[p]
       IN CASE c.op = "updateMetrics" ->
                 /\ metrics' = [metrics EXCEPT
                                  !.BlocksIndexed = c.tmp.BlocksIndexed + c.blocks,
                                  !.TransfersIndexed = c.tmp.TransfersIndexed + c.transfers,
                                  !.LastIndexedBlock = c.lastBlock]
                 /\ call' = [call EXCEPT !.procs[p] = IdleProc, !.mu.writer = @ \ {p},
                                         !.blocks = @ + c.blocks,
                                         !.transfers = @ + c.transfers]
            [] c.op = "incrementErrorCount" ->
                 /\ metrics' = [metrics EXCEPT !.ErrorCount = c.tmp.ErrorCount + 1]
                 /\ call' = [call EXCEPT !.procs[p] = IdleProc, !.mu.writer = @ \ {p},
                                         !.failed = @ + 1]
            [] c.op = "GetMetrics" ->
                 /\ UNCHANGED metrics
                 /\ call' = [call EXCEPT
                       !.procs[p] = IdleProc, !.mu.readers = @ \ {p},
                       !.returned = Some([metrics EXCEPT
                                            !.BlocksIndexed = c.tmp.BlocksIndexed]),
                       !.atReturn = Some(metrics)]
    /\ UNCHANGED <<dbVars, config, main, init, loop, task, stopCh, ctxDone, bfVars,
                   disruptions, hist, cache>>

(* --------------------------- specifications ---------------------------- *)

\* no direct call is in progress
NoCall == [op |-> "none", pc |-> "none"]

NoHist ==
    [liveWM |-> [t \in Tokens |-> 0],
     live |-> [t \in Tokens |-> {}],
     bf |-> [t \in Tokens |-> {}],
     insFail |-> [t \in Tokens |-> 0],
     stampFail |-> [t \in Tokens |-> 0],
     counted |-> [t \in Tokens |-> {}],
     stopAt |-> NoHistProc]

\* a migrated, empty database and no process
Init ==
    /\ store = EmptyBag
    /\ tokens = <<>>
    /\ state = <<>>
    /\ config = <<"t1">>
    /\ main = "down"
    /\ init = IdleInit
    /\ loop = IdleLoop
    /\ task = [t \in Tokens |-> IdleTask]
    /\ stopCh = FALSE
    /\ ctxDone = FALSE
    /\ metrics = NoMetrics
    /\ bf = IdleBackfill
    /\ bfCtxDone = FALSE
    /\ disruptions = 0
    /\ hist = NoHist
    /\ cache = EmptyCache
    /\ call = NoCall

\* the steps of a daemon that nobody stops: stopCh stays open and ctx live, so the
\* loop's select only ever takes the ticker case
DaemonStep ==
    \/ Start
    \/ InitGet
    \/ InitUpsertToken
    \/ InitUpsertState
    \/ InitDone
    \/ LoopSafe
    \/ LoopSpawn
    \/ LoopWait
    \/ LoopTick
    \/ \E t \in Tokens : TaskStep(t)

Next ==
    \/ DaemonStep
    \/ LoopExit
    \/ Stop
    \/ StopReturns
    \/ CancelCtx
    \/ Crash

\* the daemon under signals, cancellation, faults and crashes
Spec == Init /\ [][Next]_vars

NextBackfill ==
    \/ DaemonStep
    \/ BackfillStep

\* the daemon and a Backfill caller side by side
SpecBackfill == Init /\ [][NextBackfill]_vars

NextLive ==
    \/ DaemonStep
    \/ LoopExit
    \/ Stop
    \/ StopReturns
    \/ CancelCtx

\* a daemon that does not crash, whose ticker keeps firing: a loop that waits in
\* its select with a tick pending takes the tick in the end
SpecLive == Init /\ [][NextLive]_vars /\ WF_vars(LoopTick)

NextRestart ==
    \/ DaemonStep
    \/ Crash
    \/ BackfillStep

\* a daemon that may die at any point and be started again, and a Backfill caller
SpecRestart == Init /\ [][NextRestart]_vars

NextAll ==
    \/ Next
    \/ BackfillStep

\* everything at once
SpecAll == Init /\ [][NextAll]_vars

\* the transfer store under direct callers: the token rows exist, nothing else runs
InitStore ==
    /\ store = EmptyBag
    /\ tokens = TokenUpsert(<<>>, "t1", PlaceholderToken)
    /\ state = <<>>
    /\ config = <<"t1">>
    /\ main = "down"
    /\ init = IdleInit
    /\ loop = IdleLoop
    /\ task = [t \in Tokens |-> IdleTask]
    /\ stopCh = FALSE
    /\ ctxDone = FALSE
    /\ metrics = NoMetrics
    /\ bf = IdleBackfill
    /\ bfCtxDone = FALSE
    /\ disruptions = 0
    /\ hist = NoHist
    /\ cache = EmptyCache
    /\ call = NoCall

NextStore == \E b \in Batches : ManualInsert(b)

SpecStore == InitStore /\ [][NextStore]_vars

NextTx ==
    \/ \E b \in TxBatches : BatchInsertCall(b)
    \/ TxBegin
    \/ TxPrepare
    \/ TxExec
    \/ TxCommit
    \/ TxCancel

\* one caller of BatchInsert at a time, its statements one by one
SpecTx == InitStore /\ [][NextTx]_vars

NextParse == \E logs \in ParseInputSeqs : FetchCall(logs)

\* FetchTransfers called on every answer of the node
SpecParse == InitStore /\ [][NextParse]_vars

\* a watermark store of either implementation, empty, beside a token registry that
\* holds "t1"
InitStateStore ==
    /\ store = EmptyBag
    /\ tokens = TokenUpsert(<<>>, "t1", PlaceholderToken)
    /\ state = <<>>
    /\ config = <<"t1">>
    /\ main = "down"
    /\ init = IdleInit
    /\ loop = IdleLoop
    /\ task = [t \in Tokens |-> IdleTask]
    /\ stopCh = FALSE
    /\ ctxDone = FALSE
    /\ metrics = NoMetrics
    /\ bf = IdleBackfill
    /\ bfCtxDone = FALSE
    /\ disruptions = 0
    /\ hist = NoHist
    /\ cache = EmptyCache
    /\ \E impl \in StoreImpls :
          call = [op |-> "none", pc |-> "none", impl |-> impl, addr |-> "t1", h |-> 0,
                  before |-> <<>>, err |-> FALSE, repeat |-> FALSE]

NextStateStore ==
    \E addr \in StateAddrs, h \in StateHeights :
        \/ StateUpdateLastBlockCall(addr, h)
        \/ StateUpsertCall(addr, h)
        \/ StateSetBackfillingCall(addr, h)

\* direct callers of one watermark store
SpecStateStore == InitStateStore /\ [][NextStateStore]_vars

\* the daemon's start state, with a counter of the calls made beside it
InitStats ==
    /\ store = EmptyBag
    /\ tokens = <<>>
    /\ state = <<>>
    /\ config = <<"t1">>
    /\ main = "down"
    /\ init = IdleInit
    /\ loop = IdleLoop
    /\ task = [t \in Tokens |-> IdleTask]
    /\ stopCh = FALSE
    /\ ctxDone = FALSE
    /\ metrics = NoMetrics
    /\ bf = IdleBackfill
    /\ bfCtxDone = FALSE
    /\ disruptions = 0
    /\ hist = NoHist
    /\ cache = EmptyCache
    /\ call = [op |-> "none", pc |-> "none", seq |-> 0, addr |-> "t1", d |-> 0, b |-> 0]

NextStats ==
    \/ DaemonStep
    \/ \E d \in 0..1, b \in {0, MaxLatest} : StatsCall(d, b)
    \/ \E tok \in TokenInputs : TokenUpsertCall(tok)

\* the daemon, and callers of UpdateStats and Upsert beside it
SpecStats == InitStats /\ [][NextStats]_vars

NextHolders ==
    \/ \E r \in HolderRows : HolderInsert(r)
    \/ \E a \in Holders, limit \in 1..2 : HolderQuery(a, limit)

\* transfers are stored and the holder queries asked in any order
SpecHolders == InitStore /\ [][NextHolders]_vars

\* a daemon that has started: the rows of its token exist and a tick is due
InitServing ==
    /\ store = EmptyBag
    /\ tokens = TokenUpsert(<<>>, "t1", PlaceholderToken)
    /\ state = Upsert(<<>>, "t1", NewState(0))
    /\ config = <<"t1">>
    /\ main = "serving"
    /\ init = IdleInit
    /\ loop = [IdleLoop EXCEPT !.pc = "safe"]
    /\ task = [t \in Tokens |-> IdleTask]
    /\ stopCh = FALSE
    /\ ctxDone = FALSE
    /\ metrics = NoMetrics
    /\ bf = IdleBackfill
    /\ bfCtxDone = FALSE
    /\ disruptions = 0
    /\ hist = NoHist
    /\ cache = EmptyCache
    /\ call = NoCall

NextClient ==
    \/ \E op \in ClientOps : ClientCall(op)
    \/ ClientStep
    \/ Stop
    \/ CancelCtx

\* the follower's calls of the chain client, under main's signals; an attempt comes
\* back from the node in the end, and a sleep ends
SpecClient == InitServing /\ [][NextClient]_vars /\ WF_vars(ClientStep)

NextSplit ==
    \E fromBlock, toBlock \in 0..MaxSplitBlock, batchSize \in 1..MaxSplitBatch :
        SplitCall(fromBlock, toBlock, batchSize)

SpecSplit == InitStore /\ [][NextSplit]_vars

NextSplitLoop ==
    \/ \E fromBlock, toBlock \in 0..MaxSplitBlock, batchSize \in SplitBatchSizes :
          SplitStart(fromBlock, toBlock, batchSize)
    \/ SplitTurn
    \/ SplitNext

\* SplitBlockRange called with any batch size; a loop that can take a turn takes it
SpecSplitLoop == InitStore /\ [][NextSplitLoop]_vars /\ WF_vars(SplitTurn)

NextKeys ==
    \E filter \in KeyFilters, field \in DOMAIN DefaultTransferFilter :
        \E v \in FieldValues(field) : KeyCall(filter, field, v)

SpecKeys == InitStore /\ [][NextKeys]_vars

NextTokenList ==
    \E limit \in {1, 2}, offset \in {0, 1}, sortBy \in SortByInputs,
       sortOrder \in SortOrderInputs :
        TokenListCall(limit, offset, sortBy, sortOrder)

SpecTokenList == InitStore /\ [][NextTokenList]_vars

NextParseLog == \E log \in RawLogs : ParseCall(log)

\* ParseTransferEvent called on every log of the model
SpecParseLog == InitStore /\ [][NextParseLog]_vars

\* the services answer, with a cache or without one, while the indexer stores
\* transfers of "t1" and cached entries expire
InitApi ==
    /\ store = EmptyBag
    /\ tokens = TokenUpsert(<<>>, "t1", PlaceholderToken)
    /\ state = <<>>
    /\ config = <<"t1">>
    /\ main = "down"
    /\ init = IdleInit
    /\ loop = IdleLoop
    /\ task = [t \in Tokens |-> IdleTask]
    /\ stopCh = FALSE
    /\ ctxDone = FALSE
    /\ metrics = NoMetrics
    /\ bf = IdleBackfill
    /\ bfCtxDone = FALSE
    /\ disruptions = 0
    /\ hist = NoHist
    /\ cache \in {EmptyCache, NilCache}
    /\ call = NoCall

NextTransfersApi ==
    \/ \E r \in ApiRows : ApiInsert(r)
    \/ \E filter \in ApiFilters : GetTransfersCall(filter)
    \/ GetTransfersPage
    \/ GetTransfersCount
    \/ \E key \in DOMAIN cache.entries : CacheExpire(key)

SpecTransfersApi == InitApi /\ [][NextTransfersApi]_vars

NextHoldersApi ==
    \/ \E r \in ApiRows : ApiInsert(r)
    \/ \E tokenAddress \in ApiTokens, limit \in ApiLimits, offset \in ApiOffsets :
          TopHoldersCall(tokenAddress, limit, offset)
    \/ TopHoldersToken
    \/ TopHoldersCount
    \/ TopHoldersPage
    \/ \E key \in DOMAIN cache.entries : CacheExpire(key)

SpecHoldersApi == InitApi /\ [][NextHoldersApi]_vars

NextTokenApi ==
    \/ \E r \in ApiRows : ApiInsert(r)
    \/ \E tokenAddress \in ApiTokens, holderAddress \in Holders :
          HolderBalanceCall(tokenAddress, holderAddress)
    \/ \E walletAddress \in Holders, tokenAddress \in ApiTokens :
          PortfolioByTokenCall(walletAddress, tokenAddress)
    \/ \E key \in DOMAIN cache.entries : CacheExpire(key)

\* the balance of a holder and the holding of a wallet are asked for a token that
\* has a row and for one that has none
SpecTokenApi == InitApi /\ [][NextTokenApi]_vars

\* three configured tokens, more than the group admits at once
ManyTokens == <<"t1", "t2", "t3">>

\* the watermark each of them has when the tick begins: "t2" is one block ahead
ManyWatermark(t) == IF t = "t2" THEN 1 ELSE 0

\* a daemon of three tokens in service, a tick due: the rows of its tokens exist
\* and the transfers up to each token's watermark are stored and counted
InitMany ==
    /\ config = ManyTokens
    /\ store = SetToBag(UNION {{r \in ChainTransfers(t) : r.block_number <= ManyWatermark(t)}
                                 : t \in Tokens})
    /\ tokens = [t \in Tokens |->
                   UpdateStats(TokenUpsert(<<>>, t, PlaceholderToken), t,
                               Cardinality({r \in ChainTransfers(t) :
                                               r.block_number <= ManyWatermark(t)}),
                               ManyWatermark(t))[t]]
    /\ state = [t \in Tokens |-> NewState(ManyWatermark(t))]
    /\ main = "serving"
    /\ init = IdleInit
    /\ loop = [IdleLoop EXCEPT !.pc = "safe"]
    /\ task = [t \in Tokens |-> IdleTask]
    /\ stopCh = FALSE
    /\ ctxDone = FALSE
    /\ metrics = NoMetrics
    /\ bf = IdleBackfill
    /\ bfCtxDone = FALSE
    /\ disruptions = 0
    /\ hist = NoHist
    /\ cache = EmptyCache
    /\ call = NoCall

\* one tick of the loop and the tasks it starts
TickStep ==
    \/ LoopSafe
    \/ LoopSpawn
    \/ LoopWait
    \/ \E t \in Tokens : TaskStep(t)

\* the tick of a daemon of three tokens, under faults
SpecMany == InitMany /\ [][TickStep]_vars

NextPools ==
    \/ call.op = "none" /\ TickStep
    \/ \E blockNumbers \in StampBlocks : StampsCall(blockNumbers)
    \/ \E b \in 1..MaxLatest : StampsGo(b)
    \/ \E b \in 1..MaxLatest : StampsAnswer(b)
    \/ StampsWait

\* the two pools of the follower: the tasks of a tick, where a fetch is one step,
\* and one fetch lookup by lookup, during which the tick is not followed
SpecPools == InitMany /\ [][NextPools]_vars

\* a running daemon whose goroutines are followed through the metrics methods
\* only: the counters are zero, the mutex is free, nothing has been counted
InitMetrics ==
    /\ store = EmptyBag
    /\ tokens = TokenUpsert(<<>>, "t1", PlaceholderToken)
    /\ state = Upsert(<<>>, "t1", NewState(0))
    /\ config = <<"t1">>
    /\ main = "serving"
    /\ init = IdleInit
    /\ loop = IdleLoop
    /\ task = [t \in Tokens |-> IdleTask]
    /\ stopCh = FALSE
    /\ ctxDone = FALSE
    /\ metrics = ZeroMetrics
    /\ bf = IdleBackfill
    /\ bfCtxDone = FALSE
    /\ disruptions = 0
    /\ hist = NoHist
    /\ cache = EmptyCache
    /\ call = [op |-> "metrics", pc |-> "none",
               procs |-> [p \in MetricProcs |-> IdleProc],
               mu |-> [writer |-> {}, readers |-> {}],
               n |-> 0, blocks |-> 0, transfers |-> 0, failed |-> 0,
               returned |-> NULL, atReturn |-> NULL]

NextMetrics ==
    \E p \in MetricProcs :
        \/ \E c \in MetricOps(p) : MetricsCall(p, c)
        \/ MetricsLock(p)
        \/ MetricsLoad(p)
        \/ MetricsStore(p)

\* the goroutines of the follower calling the metrics methods in any interleaving
SpecMetrics == InitMetrics /\ [][NextMetrics]_vars

\* a step of the tick is possible, ENABLED <<TickStep>>_vars written out: the
\* safe tip is due, a task is in progress (each of its calls returns), g.Go can
\* start the next task, or g.Wait can return
TickEnabled ==
    \/ loop.pc = "safe"
    \/ Running # {}
    \/ loop.pc = "spawn" /\ (loop.spawnI > Len(config) \/ ~LimitReached(0))

\* a daemon under signals whose process is not killed: every call of a tick
\* returns, so a tick in progress goes on (weak fairness of TickStep); a select
\* that finds stopCh closed or the context cancelled time and again takes that
\* case in the end (Go chooses among the ready cases at random); a Stop whose
\* wait is over returns
SpecStop ==
    /\ Init /\ [][NextLive]_vars
    /\ ([]<>~TickEnabled \/ []<><<TickStep>>_vars)
    /\ SF_vars(LoopExit) /\ WF_vars(StopReturns)


(* ------------------------------- claims ------------------------------- *)

Watermark(t) == state[t].last_indexed_block

\* C1: for every token, no step of any actor (ticks, startup, restarts, crashes,
\* backfill runs) lowers the stored last_indexed_block or removes its row.
C1_WatermarkMonotone ==
    [][\A t \in DOMAIN state :
          t \in DOMAIN state' /\ state'[t].last_indexed_block >= Watermark(t)]_vars

\* a restarted daemon is initialising while the watermark is at the highest safe tip
\* and a backfill run has its flag set
C1_Witness ==
    /\ "t1" \in DOMAIN state
    /\ Watermark("t1") = SafeBlock(MaxLatest)
    /\ main = "init"
    /\ bf.set /\ BfRunning

\* C2: whenever last_indexed_block = H, every Transfer of the token in a block
\* up to and including H is in the transfer store.
C2_WatermarkBehindInserts ==
    \A t \in DOMAIN state :
        \A r \in ChainTransfers(t) :
            r.block_number <= Watermark(t) => CopiesIn(r, store) >= 1

\* the watermark has passed blocks that carry transfers, and a block that carries none
C2_Witness ==
    /\ "t1" \in DOMAIN state
    /\ Watermark("t1") >= 3
    /\ BagCardinality(store) >= 3

\* C3: inserting a batch a second time changes nothing, and no two stored rows
\* share (tx_hash, log_index, block_timestamp), whatever batches were inserted.
C3_IdempotentUnique ==
    /\ \A b \in Batches : BatchInsert(BatchInsert(store, b), b) = BatchInsert(store, b)
    /\ \A r \in BagToSet(store) : CopiesIn(r, store) = 1
    /\ \A r, q \in BagToSet(store) :
          (r.tx_hash = q.tx_hash /\ r.log_index = q.log_index
             /\ r.block_timestamp = q.block_timestamp) => r = q

\* two rows that differ only in block_timestamp are both stored, and every key is taken,
\* so rows of another value offered for a taken key were dropped
C3_Witness ==
    /\ \E r, q \in BagToSet(store) :
          r.tx_hash = q.tx_hash /\ r.log_index = q.log_index /\ r # q
    /\ BagCardinality(store) = 4

\* C4: however the follower's and the backfill's batch inserts interleave and
\* overlap, the store holds exactly one copy of every Transfer of every block
\* range either of them committed, and nothing else: the content depends on
\* which batches were committed, not on their order.
C4_InterleavingExactlyOnce ==
    /\ \A t \in Tokens : \A r \in ChainTransfers(t) :
          CopiesIn(r, store) =
             IF r.block_number \in hist.live[t] \cup hist.bf[t] THEN 1 ELSE 0
    /\ BagToSet(store) \subseteq UNION {ChainTransfers(t) : t \in Tokens}

\* both have committed a batch over block 1, and both are in the middle of a range
C4_Witness ==
    /\ 1 \in hist.live["t1"] \cap hist.bf["t1"]
    /\ InRange("t1")
    /\ bf.pc = "insert"

\* C5: the stored watermark is always the value the follower (or startup) wrote
\* last; no step of a backfill run, on any of its paths, changes it.
C5_BackfillLeavesWatermark ==
    \A t \in DOMAIN state : Watermark(t) = hist.liveWM[t]

\* a backfill run has returned after setting its flag, with the watermark advanced
C5_Witness ==
    /\ bf.pc = "done" /\ bf.set
    /\ "t1" \in DOMAIN state
    /\ Watermark("t1") >= 1

\* C6: when a backfill run that has set is_backfilling has returned, the token's
\* state has is_backfilling = false and both window fields NULL.
C6_FlagClearedOnExit ==
    (bf.pc = "done" /\ bf.set /\ bf.token \in DOMAIN state) =>
        /\ ~state[bf.token].is_backfilling
        /\ state[bf.token].backfill_from_block = NULL
        /\ state[bf.token].backfill_to_block = NULL

\* C7: once Stop was called while the follower was processing a range, the
\* follower processes no range beyond that one in this run.
C7_StopEndsAfterCurrentRange ==
    \A t \in Tokens :
        (hist.stopAt[t] # 0 /\ InRange(t)) => Cur(t).To <= hist.stopAt[t]

\* C8: after batch_insert failed for a range, the watermark is still the block
\* before that range, the token's task has returned without touching a later
\* range, and the next task of the token starts at that range's first block.
C8_InsertFailureRetriesSameRange ==
    \A t \in Tokens :
        hist.insFail[t] # 0 =>
            /\ t \in DOMAIN state
            /\ Watermark(t) = hist.insFail[t] - 1
            /\ task[t].pc \in {"idle", "done", "get", "check"}
            /\ task[t].pc = "check" => task[t].from = hist.insFail[t] /\ task[t].i = 1

\* the insert of a tick's second range failed, and the next tick is about to fetch again
C8_Witness ==
    /\ hist.insFail["t1"] = 3
    /\ task["t1"].pc = "check"

\* C9: a tick that fails (the safe-tip lookup, or any per-token task) adds one
\* to ErrorCount and leaves the loop at its select; the loop exits only on
\* shutdown or cancellation; and as long as neither is signalled (and ErrorCount
\* is below the model's cap on ticks) the next tick runs in the end.
C9_FailedTickIsNotFatal ==
    /\ [][((loop.pc = "safe" /\ loop'.pc \notin {"safe", "spawn"} /\ main' # "down")
             \/ (loop.pc = "spawn" /\ loop'.pc # "spawn" /\ main' # "down"
                   /\ \E t \in Tokens : task[t].err))
            => /\ metrics'.ErrorCount = metrics.ErrorCount + 1
               /\ loop'.pc = "select"]_vars
    /\ [](loop.pc = "exited" => (stopCh \/ ctxDone))
    /\ ((loop.pc = "select" /\ loop.lastTick = "failed" /\ metrics.ErrorCount < MaxErrors)
          ~> (loop.pc = "safe" \/ stopCh \/ ctxDone))

\* a second tick is running after a tick that failed, with no shutdown and no cancellation
C9_Witness ==
    /\ loop.pc = "spawn" /\ loop.lastTick = "failed"
    /\ metrics.ErrorCount = 1
    /\ ~stopCh /\ ~ctxDone

\* C10: an UpdateStats for a range whose blocks were all counted before leaves
\* total_indexed_transfers as it was.
C10_ReprocessingKeepsTotal ==
    [][\A t \in DOMAIN tokens :
          (task[t].pc = "stats" /\ Blocks(Cur(t)) \subseteq hist.counted[t]) =>
              tokens'[t].total_indexed_transfers = tokens[t].total_indexed_transfers]_vars

\* C11: BatchInsert is all-or-nothing.  While it runs nothing it wrote is visible;
\* when it returns an error (a row, the commit or the begin failed, or the context
\* was cancelled) the store is as it was before the call; when it returns nil every
\* row is in; an empty batch returns nil without a single statement.
C11_AllOrNothing ==
    call.op = "BatchInsert" =>
        /\ TxOpen => store = call.before
        /\ (call.pc = "returned" /\ call.err) => store = call.before
        /\ (call.pc = "returned" /\ ~call.err) =>
              store = BatchInsert(call.before, call.rows)
        /\ (call.pc = "returned" /\ Len(call.rows) = 0) =>
              ~call.err /\ call.stmts = 0 /\ store = call.before

\* a call has failed on its second row after its first row was inserted in the transaction
C11_Witness ==
    /\ call.op = "BatchInsert" /\ call.pc = "returned" /\ call.err
    /\ call.i = 2
    /\ call.pending # call.before

\* C12: every chain-client call returns.  It has then made at most MaxRetries + 1
\* attempts with a sleep between two attempts; a nil error comes with the answer of
\* the first attempt that succeeded; an error comes only after MaxRetries + 1 failed
\* attempts and with the zero value.
C12_RetryBudget ==
    /\ [](call.op \in ClientOps =>
            /\ Len(call.answers) <= MaxRetries + 1
            /\ call.sleeps <= MaxRetries
            /\ call.pc = "returned" =>
                  /\ call.sleeps = Len(call.answers) - 1
                  /\ \A j \in 1..(Len(call.answers) - 1) : call.answers[j] = NULL
                  /\ ~call.err => /\ call.answers[Len(call.answers)] # NULL
                                  /\ call.result = call.answers[Len(call.answers)]
                  /\ call.err => /\ Len(call.answers) = MaxRetries + 1
                                 /\ call.answers[Len(call.answers)] = NULL
                                 /\ call.result = NULL)
    /\ (ClientRunning ~> (call.pc = "returned"))

\* a call has returned the answer of its last permitted attempt
C12_Witness ==
    /\ call.op = "GetLogs" /\ call.pc = "returned" /\ ~call.err
    /\ Len(call.answers) = MaxRetries + 1

\* C13: once shutdown (Stop) or cancellation of the context is signalled while a
\* chain-client call of the follower is in flight, the signal reaches the call: no
\* attempt made after the signal succeeds, so the call returns its error within the
\* retry budget of MaxRetries + 1 attempts.
C13_SignalReachesCall ==
    /\ [][(/\ stopCh \/ ctxDone
           /\ call.op \in ClientOps /\ call.pc = "attempt"
           /\ call'.op = call.op
           /\ Len(call'.answers) = Len(call.answers) + 1)
             => call'.answers[Len(call'.answers)] = NULL]_vars
    /\ [](call.op \in ClientOps => Len(call.answers) <= MaxRetries + 1)

\* C14: when the timestamp lookup of a block of a fetched range has failed, the
\* token's task returns an error without an insert, a stats update or a watermark
\* update for that range: until the tick ends the task has returned and the
\* watermark is the block before the range.
C14_TimestampFailureFailsFetch ==
    /\ [](\A t \in Tokens :
            hist.stampFail[t] # 0 =>
                /\ t \in DOMAIN state
                /\ Watermark(t) = hist.stampFail[t] - 1
                /\ task[t].pc = "done" /\ task[t].err)
    /\ [][\A t \in Tokens :
            hist'.stampFail[t] # 0 =>
                store' = store /\ state' = state /\ tokens' = tokens]_vars

\* a lookup failed in a tick's second range, after the first range was inserted
C14_Witness ==
    /\ hist.stampFail["t1"] = 3
    /\ task["t1"].pc = "done" /\ task["t1"].err
    /\ BagCardinality(store) >= 1

\* C15: for n fetched logs of which k do not parse, FetchTransfers returns no
\* error, the n - k logs that parse as transfers in the order of the logs, and
\* FailedLogCount = k.
C15_BadLogsAreCounted ==
    call.op = "FetchTransfers" =>
        LET n == Len(call.logs)
            parsing == SelectSeq(call.logs, LAMBDA l : ParseError(l) = "none")
            k == Cardinality({i \in 1..n : ParseError(call.logs[i]) # "none"})
        IN /\ call.result # NULL
           /\ Len(call.result[1].Transfers) = n - k
           /\ call.result[1].FailedLogCount = k
           /\ \A j \in 1..(n - k) :
                /\ call.result[1].Transfers[j].tx_hash = parsing[j].tx_hash
                /\ call.result[1].Transfers[j].value = parsing[j].data
                /\ call.result[1].Transfers[j].block_timestamp
                     = BlockTimestamp(parsing[j].block_number)

\* three logs, the middle one with a short data field
C15_Witness ==
    /\ call.op = "FetchTransfers" /\ Len(call.logs) = 3
    /\ ParseError(call.logs[1]) = "none" /\ ParseError(call.logs[2]) = "data"
    /\ ParseError(call.logs[3]) = "none"
    /\ call.logs[1].tx_hash = 2 /\ call.logs[3].tx_hash = 1
    /\ call.result # NULL /\ call.result[1].FailedLogCount = 1

\* C16: the upper bound of a tick is max(0, latest - confirmations) for the latest
\* block read in that tick, it stays the tick's bound until the tick ends, every
\* range the follower fetches in the tick ends at or below it, and every row it
\* inserts and every watermark it writes is at or below it.
C16_ConfirmationBound ==
    /\ []((loop.pc = "spawn" /\ loop.spawnI = 1) =>
            loop.safeBlock = IF loop.latest - BlockConfirmations < 0 THEN 0
                             ELSE loop.latest - BlockConfirmations)
    /\ [](loop.pc = "spawn" =>
            \A t \in Tokens : InRange(t) => Cur(t).From >= 1 /\ Cur(t).To <= loop.safeBlock)
    /\ [][/\ (loop.pc = "spawn" /\ loop'.pc = "spawn") => loop'.safeBlock = loop.safeBlock
          /\ \A r \in BagToSet(store') \ BagToSet(store) :
                loop.pc = "spawn" /\ r.block_number <= loop.safeBlock
          /\ \A t \in DOMAIN state \cap DOMAIN state' :
                Watermark(t)' # Watermark(t) =>
                    loop.pc = "spawn" /\ Watermark(t)' <= loop.safeBlock]_vars

\* a tick whose bound is that of the highest block has brought the watermark up to it
C16_Witness ==
    /\ loop.pc = "spawn" /\ loop.safeBlock = MaxLatest - BlockConfirmations
    /\ task["t1"].pc = "done" /\ ~task["t1"].err
    /\ Watermark("t1") = MaxLatest - BlockConfirmations
    /\ \E r \in BagToSet(store) : r.block_number = MaxLatest - BlockConfirmations

\* C17: a startup creates, for a configured token without a token row, the token
\* row ("Unknown", "UNK", 18) and then the state row with last_indexed_block 0, so
\* that a daemon that serves has a token row for every configured token; a token
\* row that exists, and the state row of a token that has one, are left as they
\* are by every step of a startup.
C17_StartupSeedsMissingTokens ==
    /\ [](main = "serving" => \A i \in DOMAIN config : config[i] \in DOMAIN tokens)
    /\ [][/\ \A a \in DOMAIN tokens' \ DOMAIN tokens :
                /\ main = "init"
                /\ tokens'[a].name = "Unknown" /\ tokens'[a].symbol = "UNK"
                /\ tokens'[a].decimals = 18
                /\ tokens'[a].total_indexed_transfers = 0
          /\ \A a \in DOMAIN state' \ DOMAIN state :
                /\ main = "init" /\ a \in DOMAIN tokens
                /\ state'[a].last_indexed_block = 0 /\ ~state'[a].is_backfilling
          /\ (main = "init" /\ main' = "init" /\ init.pc = "state" /\ init' # init)
                => config[init.i] \in DOMAIN state'
          /\ main = "init" =>
                \A a \in DOMAIN tokens :
                    /\ a \in DOMAIN tokens' /\ tokens'[a] = tokens[a]
                    /\ a \in DOMAIN state => a \in DOMAIN state' /\ state'[a] = state[a]]_vars

\* a restarted daemon passes a token that has its rows, transfers and a watermark
C17_Witness ==
    /\ main = "init" /\ init.i = 2
    /\ "t1" \in DOMAIN state /\ Watermark("t1") >= 1
    /\ tokens["t1"].total_indexed_transfers >= 1

\* C18: in every implementation of the watermark store, UpdateLastBlock(token, h)
\* on a token without a state row creates the row with last_indexed_block = h, and
\* the same call made again leaves the store as it was.
C18_UpdateLastBlockCreates ==
    (call.op = "UpdateLastBlock" /\ call.addr \in DOMAIN tokens) =>
        /\ ~call.err
        /\ call.addr \in DOMAIN state /\ state[call.addr].last_indexed_block = call.h
        /\ call.repeat => state = call.before

\* C19: no step of the follower, of a stats update or of a token upsert lowers a
\* token's total_indexed_transfers or its last_seen_block, or removes the token
\* row; UpdateStats(address, d, b) adds d to the counter and sets last_seen_block
\* to the larger of its previous value and b.
C19_StatsNeverDecrease ==
    [][\A a \in DOMAIN tokens :
          /\ a \in DOMAIN tokens'
          /\ tokens'[a].total_indexed_transfers >= tokens[a].total_indexed_transfers
          /\ Coalesce(tokens'[a].last_seen_block, 0) >= Coalesce(tokens[a].last_seen_block, 0)
          /\ tokens[a].last_seen_block # NULL => tokens'[a].last_seen_block # NULL
          /\ (call'.op = "UpdateStats" /\ call'.seq # call.seq /\ call'.addr = a) =>
                /\ tokens'[a].total_indexed_transfers
                     = tokens[a].total_indexed_transfers + call'.d
                /\ tokens'[a].last_seen_block
                     = Some(IF Coalesce(tokens[a].last_seen_block, 0) >= call'.b
                            THEN Coalesce(tokens[a].last_seen_block, 0) ELSE call'.b)]_vars

\* a stats update with a block below the recorded one, after the follower has
\* indexed transfers
C19_Witness ==
    /\ call.op = "UpdateStats" /\ call.b = 0 /\ call.d = 1
    /\ "t1" \in DOMAIN tokens /\ BagCardinality(store) >= 2
    /\ Coalesce(tokens["t1"].last_seen_block, 0) >= 2
    /\ tokens["t1"].total_indexed_transfers >= 2

\* C20: the balance every holder query returns for an address of a token is the
\* sum of the values of the token's stored transfers into the address minus the
\* sum of the values of those out of it, transfers of an address to itself
\* included.
C20_BalanceIsSignedSum ==
    call.op = "HolderQueries" =>
        LET rows == {r \in BagToSet(store) : r.token_address = "t1"}
            into(a) == SumOver([r \in rows |-> IF r.to_address = a THEN r.value ELSE 0], rows)
            outof(a) == SumOver([r \in rows |-> IF r.from_address = a THEN r.value ELSE 0], rows)
        IN /\ call.single.Balance = into(call.addr) - outof(call.addr)
           /\ \A i \in DOMAIN call.top :
                 call.top[i].Balance = into(call.top[i].Address) - outof(call.top[i].Address)
           /\ call.holding # NULL
           /\ call.holding[1].Balance = into(call.addr) - outof(call.addr)

\* C21: GetTopHolders(T, N) for a token with N holders of positive balance returns
\* exactly those holders with ranks 1..N in order, by balance descending and, among
\* equal balances, by address ascending, so that every evaluation over one store
\* returns the same list.
C21_RankTotalAndStable ==
    call.op = "HolderQueries" =>
        LET rows == {r \in BagToSet(store) : r.token_address = "t1"}
            bal(a) == SumOver([r \in rows |-> IF r.to_address = a THEN r.value ELSE 0], rows)
                      - SumOver([r \in rows |-> IF r.from_address = a THEN r.value ELSE 0], rows)
            positive == {a \in Range(AddressOrder) : bal(a) > 0}
        IN call.limit = Cardinality(positive) =>
              /\ Len(call.top) = call.limit
              /\ {call.top[i].Address : i \in DOMAIN call.top} = positive
              /\ \A i \in DOMAIN call.top : call.top[i].Rank = i
              /\ \A i, j \in DOMAIN call.top :
                    i < j => \/ call.top[i].Balance > call.top[j].Balance
                             \/ /\ call.top[i].Balance = call.top[j].Balance
                                /\ AddressLess(call.top[i].Address, call.top[j].Address)

\* C22: the balance and the rank GetHolderBalance returns for an address are those
\* GetTopHolders reports for it over the same store, equal balances included.
C22_SingleAgreesWithTop ==
    call.op = "HolderQueries" =>
        \A i \in DOMAIN call.top :
            call.top[i].Address = call.addr =>
                /\ call.single.Balance = call.top[i].Balance
                /\ call.single.Rank = call.top[i].Rank

\* C23: every paginated response that is returned, of a transfer list or of a page
\* of top holders, has has_more true exactly when offset + limit < total, also when
\* a row was stored between the page query and the count query and when the total
\* is a cached count.
C23_HasMoreIsOffsetPlusLimit ==
    /\ (call.op = "GetTransfers" /\ call.pc = "returned" /\ call.response # NULL) =>
          LET r == call.response[1]
          IN r.HasMore <=> (r.Offset + r.Limit < r.Total)
    /\ (call.op = "GetTopHolders" /\ call.pc = "returned" /\ call.response # NULL) =>
          LET p == call.response[1].Pagination
          IN p.HasMore <=> (p.Offset + p.Limit < p.Total)

\* C24: for from <= to and batch_size >= 1, SplitBlockRange returns ranges in
\* ascending order that follow one another without gap or overlap, the first
\* starting at from and the last ending at to, each but the last of exactly
\* batch_size blocks and the last of at most batch_size; for from > to it returns
\* no range.
C24_SplitCoversRange ==
    call.op = "SplitBlockRange" =>
        LET r == call.ranges
            n == Len(call.ranges)
        IN /\ call.from > call.to => n = 0
           /\ call.from <= call.to =>
                 /\ n >= 1
                 /\ r[1].From = call.from /\ r[n].To = call.to
                 /\ \A i \in 1..n : r[i].From <= r[i].To
                 /\ \A i \in 1..(n - 1) :
                       /\ r[i + 1].From = r[i].To + 1
                       /\ r[i].To - r[i].From + 1 = call.batchSize
                 /\ r[n].To - r[n].From + 1 <= call.batchSize

\* a range of seven blocks is split into two batches of three and a last one of one
C24_Witness ==
    /\ call.op = "SplitBlockRange" /\ call.batchSize = 3
    /\ Len(call.ranges) = 3
    /\ call.ranges[3].From = call.ranges[3].To
    /\ call.ranges[1].From = call.from /\ call.ranges[3].To = call.to

\* C25: two filters that differ in a field (token, from, to, address, from_block,
\* to_block, from_time, to_time, limit, offset) have different cache keys, and
\* equal filters have the same key.
C25_KeyDistinguishesFilters ==
    call.op = "generateCacheKey" =>
        (call.key = call.otherKey <=> call.filter = call.other)

C27_MissingTokenIsNull ==
    (/\ call.op \in {"GetTopHolders", "GetHolderBalance", "GetPortfolioByToken"}
     /\ call.pc = "returned"
     /\ call.token \notin DOMAIN tokens
     /\ ~call.dbErr) =>
        ~call.err /\ call.response = NULL

\* C28: whatever strings are passed as sort_by and sort_order, the token list
\* query orders by a column of the whitelist, the one asked for or else
\* total_indexed_transfers, in the direction asc or desc, the one asked for or
\* else desc; every piece of the query text is one of these or fixed text, so no
\* text of the caller gets into it.
C28_SortIsWhitelisted ==
    call.op = "GetAllPaginated" =>
        LET text == call.query.text
        IN /\ Len(text) = 5
           /\ text[1] = "SELECT * FROM tokens ORDER BY " /\ text[3] = " "
           /\ text[5] = " LIMIT $1 OFFSET $2"
           /\ text[2] \in validSortColumns
           /\ text[2] = IF call.sortBy \in validSortColumns THEN call.sortBy
                        ELSE "total_indexed_transfers"
           /\ text[4] \in {"asc", "desc"}
           /\ text[4] = IF call.sortOrder \in {"asc", "desc"} THEN call.sortOrder
                        ELSE "desc"

\* a call whose sort_by and sort_order both carry a statement of their own
C28_Witness ==
    /\ call.op = "GetAllPaginated"
    /\ call.sortBy = "name; DROP TABLE tokens; --"
    /\ call.sortOrder = "desc; DROP TABLE tokens; --"
    /\ call.query.text[2] = "total_indexed_transfers" /\ call.query.text[4] = "desc"

\* C29: ParseTransferEvent succeeds exactly for a log with three topics whose
\* first is the Transfer signature and whose data has 32 bytes.  It then returns
\* the transfer whose from and to are the low 20 bytes of the second and the third
\* topic as "0x" and 40 lowercase hex digits, and whose value is the data read as
\* a big-endian unsigned integer; otherwise it returns an error and no transfer.
C29_ParseAcceptsExactlyTransfers ==
    call.op = "ParseTransferEvent" =>
        LET log == call.log
            r == call.result
            ok == /\ Len(log.Topics) = 3
                  /\ log.Topics[1] = TransferEventSignature
                  /\ Len(log.Data) = 32
            digits == <<"0", "1", "2", "3", "4", "5", "6", "7", "8", "9",
                        "a", "b", "c", "d", "e", "f">>
            hex(topic) == <<"0x">> \o [i \in 1..40 |->
                              LET byte == topic[12 + (i + 1) \div 2]
                              IN digits[(IF i % 2 = 1 THEN byte \div 16 ELSE byte % 16) + 1]]
        IN /\ r.err = "none" <=> ok
           /\ r.err # "none" => r.transfer = NULL
           /\ ok =>
                 /\ r.transfer # NULL
                 /\ r.transfer[1].FromAddress = hex(log.Topics[2])
                 /\ r.transfer[1].ToAddress = hex(log.Topics[3])
                 /\ ~r.transfer[1].Value.neg
                 /\ LET abs == r.transfer[1].Value.abs
                    IN /\ Len(abs) <= 32
                       /\ abs # <<>> => abs[1] # 0
                       /\ \A i \in 1..32 :
                             log.Data[i] = IF i <= 32 - Len(abs) THEN 0
                                           ELSE abs[i - (32 - Len(abs))]

\* a log is parsed whose second topic has bytes that are not zero before the
\* address and whose data has its highest bit set
C29_Witness ==
    /\ call.op = "ParseTransferEvent" /\ call.result.err = "none"
    /\ call.log.Topics[2][1] = 255 /\ call.log.Topics[3][1] = 0
    /\ call.log.Data[1] = 255
    /\ call.result.transfer[1].FromAddress[2] = "0"
    /\ call.result.transfer[1].FromAddress[3] = "a"

\* C30: in the follower the batches of a token follow one another.  The fetch of
\* a range begins at the head of the range loop with the watermark at the block
\* before the range, so after the update_last_block of the range before it; rows
\* are inserted only by the insert of the range in progress; the watermark moves
\* only in the update of the range in progress, to the end of that range, and the
\* task then goes on to the next range; a task of a token is started, and a tick
\* ends, only when no task of the token is in progress.
C30_BatchesAreSequential ==
    [][/\ \A t \in Tokens :
            /\ (task'[t].pc = "fetch" /\ task[t].pc # "fetch") =>
                  /\ task[t].pc = "check"
                  /\ t \in DOMAIN state /\ Watermark(t) = Cur(t)'.From - 1
            /\ (t \in DOMAIN state /\ t \in DOMAIN state' /\ Watermark(t)' # Watermark(t)) =>
                  /\ task[t].pc = "update" /\ Watermark(t)' = Cur(t).To
                  /\ task'[t].pc = "check" /\ task'[t].i = task[t].i + 1
            /\ (task'[t].pc = "get" /\ task[t].pc # "get") => task[t].pc \in {"idle", "done"}
       /\ store' # store =>
             \E t \in Tokens :
                 /\ task[t].pc = "insert" /\ Watermark(t) = Cur(t).From - 1
                 /\ \A r \in BagToSet(store') \ BagToSet(store) :
                       /\ r.token_address = t
                       /\ r.block_number >= Cur(t).From /\ r.block_number <= Cur(t).To
       /\ (loop.pc = "spawn" /\ loop'.pc = "select" /\ main' # "down") =>
             \A t \in Tokens : task[t].pc \in {"idle", "done"}]_vars

\* in a tick that follows a tick that succeeded, the fetch of the second range is
\* about to begin, with the rows of the first range stored and the watermark at
\* its end
C30_Witness ==
    /\ loop.pc = "spawn" /\ loop.lastTick = "ok"
    /\ task["t1"].pc = "fetch" /\ task["t1"].i = 2
    /\ Watermark("t1") = Cur("t1").From - 1
    /\ \E r \in BagToSet(store) : r.block_number >= Cur("t1").From - BatchSize

\* C31: a task that reads a watermark at or above the safe tip (from =
\* last_indexed_block + 1 > safe tip) returns at once, and that step writes no
\* row of the transfer, token or watermark store; no task is ever inside the range
\* loop (fetch, insert, stats update, watermark write) with from above the safe
\* tip or with an empty list of ranges.
C31_UpToDateTokenUntouched ==
    /\ [](\A t \in Tokens :
            InRange(t) => /\ task[t].from <= loop.safeBlock
                          /\ task[t].i \in 1..Len(Ranges(t)))
    /\ [][\A t \in Tokens :
            (/\ task[t].pc = "get" /\ task'[t] # task[t]
             /\ t \in DOMAIN state /\ Watermark(t) + 1 > loop.safeBlock) =>
                /\ task'[t].pc \in {"done", "idle"}
                /\ UNCHANGED <<store, tokens, state>>]_vars

\* in a tick that follows a tick that moved the watermark, the task of "t1" has
\* found the watermark at or above the safe tip and returned without an error
C31_Witness ==
    /\ loop.pc = "spawn" /\ loop.lastTick = "ok"
    /\ task["t1"].pc = "done" /\ ~task["t1"].err /\ task["t1"].i = 0
    /\ "t1" \in DOMAIN state /\ Watermark("t1") >= 1
    /\ Watermark("t1") >= loop.safeBlock

\* C32: every range the follower has processed has had the token's stats updated
\* with last_block = r.to, whether or not it held a transfer: whenever no call has
\* failed and the task of a token is between two ranges or has returned,
\* last_seen_block is at least the token's watermark.
C32_StatsFollowWatermark ==
    \A t \in Tokens :
        (/\ disruptions = 0
         /\ t \in DOMAIN state /\ t \in DOMAIN tokens
         /\ task[t].pc \in {"idle", "check", "done"}) =>
            Coalesce(tokens[t].last_seen_block, 0) >= Watermark(t)

\* C33: at no moment are more than WorkerCount per-token tasks of a tick in
\* progress, and at no moment of a fetch are more than WorkerCount block-timestamp
\* lookups in flight.
C33_PoolsAreBounded ==
    /\ Cardinality(Running) <= WorkerCount
    /\ call.op = "fetchBlockTimestamps" => Cardinality(call.active) <= WorkerCount

\* the tick has WorkerCount tasks in progress and a token still waits for its
\* task to be started; a fetch has WorkerCount lookups in flight and a block
\* still waits for its lookup to be started
C33_Witness ==
    /\ Cardinality(Running) = WorkerCount
    /\ loop.pc = "spawn" /\ loop.spawnI <= Len(config)
    /\ call.op = "fetchBlockTimestamps"
    /\ Cardinality(call.active) = WorkerCount /\ call.todo # {}

C35_CancelKeepsWatermarks ==
    /\ [](\A t \in Tokens :
            /\ t \in DOMAIN state /\ Watermark(t) >= ManyWatermark(t)
            /\ Watermark(t) > ManyWatermark(t) =>
                  \E safe \in 1..MaxLatest :
                      \E r \in Range(SplitBlockRange(ManyWatermark(t) + 1, safe, BatchSize)) :
                          Watermark(t) = r.To
            /\ \A r \in ChainTransfers(t) :
                  (r.block_number > ManyWatermark(t) /\ r.block_number <= Watermark(t)) =>
                      r.block_number \in hist.live[t] /\ BagIn(r, store))
    /\ [][\A t \in Tokens :
            Watermark(t)' # Watermark(t) =>
                /\ Watermark(t)' > Watermark(t)
                /\ task[t].pc = "update" /\ Watermark(t)' = Cur(t).To]_vars

\* the task of one token has failed, the group has cancelled the task of another
\* token between its first range and its second, and the task of a third has
\* returned after its last range
C35_Witness ==
    /\ loop.pc = "spawn"
    /\ \E t, u, v \in Tokens :
          /\ task[t].pc = "done" /\ task[t].err /\ task[t].i >= 1
          /\ Watermark(t) = ManyWatermark(t)
          /\ task[u].pc = "done" /\ task[u].err /\ task[u].i = 2
          /\ Watermark(u) > ManyWatermark(u) /\ Watermark(u) < loop.safeBlock
          /\ task[v].pc = "done" /\ ~task[v].err /\ Watermark(v) = loop.safeBlock

\* C36: once Start has returned without an error, every configured token has a
\* row in indexer_state, whatever rows the stores held before: while the daemon
\* serves or stops, no configured token is without a state row, and no task
\* returns "indexer state not found".
C36_StartLeavesStateRows ==
    main \in {"serving", "stopping"} =>
        \A t \in Tokens :
            /\ t \in DOMAIN state
            /\ ~(task[t].pc = "done" /\ task[t].err /\ t \notin DOMAIN state)

\* C37: is_backfilling of a token is true exactly while a backfill run of the
\* token is in progress: from the run's SetBackfilling(true) until its deferred
\* SetBackfilling(false) the token has a state row with the flag set, also when
\* it had no row when the run began, and while no run is in progress the flag of
\* an existing row is clear.
C37_FlagTracksRuns ==
    \A t \in Tokens :
        /\ (bf.token = t /\ bf.pc \in {"check", "fetch", "insert", "defer"}) =>
              t \in DOMAIN state /\ state[t].is_backfilling
        /\ (bf.pc \in {"idle", "done"} /\ t \in DOMAIN state) =>
              ~state[t].is_backfilling

\* the three backfill columns of a state row
BackfillColumns(row) ==
    <<row.is_backfilling, row.backfill_from_block, row.backfill_to_block>>

\* C38: a watermark update of the follower changes no backfill column: every step
\* of the daemon, beside a backfill run at any point of its course, leaves
\* is_backfilling, backfill_from_block and backfill_to_block of every row as they
\* were; and for a token without a row, UpdateLastBlock creates a row that is
\* not backfilling and changes no other row.
C38_WatermarkUpdateKeepsBackfillColumns ==
    /\ [](\A addr \in AllTokens \ DOMAIN state : \A h \in 0..MaxLatest :
            LET created == UpdateLastBlock(state, addr, h)
            IN /\ created[addr].last_indexed_block = h
               /\ BackfillColumns(created[addr]) = <<FALSE, NULL, NULL>>
               /\ \A a \in DOMAIN state : created[a] = state[a])
    /\ [][\A t \in DOMAIN state :
            (bf' = bf \/ Watermark(t)' # Watermark(t)) =>
                BackfillColumns(state'[t]) = BackfillColumns(state[t])]_vars

\* the follower has moved the watermark of "t1" while a backfill run of the token
\* is in its range loop, and the row still carries the run's flag and window
C38_Witness ==
    /\ "t1" \in DOMAIN state /\ Watermark("t1") >= 1
    /\ hist.liveWM["t1"] = Watermark("t1")
    /\ task["t1"].pc = "check" /\ task["t1"].i = 2
    /\ bf.pc = "fetch" /\ bf.i = 1
    /\ BackfillColumns(state["t1"]) = <<TRUE, Some(bf.from), Some(bf.to)>>

C40_SplitBlockRangeTerminates ==
    (call.op = "SplitBlockRange" /\ call.pc = "loop") ~> (call.pc = "returned")

====
